---- MODULE Spec2Model ----
(***************************************************************************)
(* ThreadKeeper local thread store (extension/lib/storage.js,              *)
(* class StorageManager) over the chrome.storage.local key-document        *)
(* backend.  The state is the set of persisted documents; every public     *)
(* operation of StorageManager is one action.                              *)
(***************************************************************************)
EXTENDS Integers, Sequences, FiniteSets, TLC

VARIABLES
    threads,      \* document 'threads':     thread id -> thread record
    collections,  \* document 'collections': collection id -> [threadIds]
    tags,         \* document 'tags':        tag id -> [threadCount]
    metadata,     \* document 'metadata':    [version, threadCount]
    user,         \* document 'auth'.user:   [present, isPremium]
    now,          \* the value Date.now() returns
    nextCol,      \* number of ids generateId('col') has handed out
    nextTag,      \* number of ids generateId('tag') has handed out
    last,         \* the last call: [op, res, writes]
    calls,        \* the calls in flight: context -> position and locals
    syncState,    \* document 'syncState':   [lastSync, pendingChanges]
    db            \* backend database: [unique, collections: id -> [name, parent_id]]

vars == <<threads, collections, tags, metadata, user, now, nextCol, nextTag, last, calls,
          syncState, db>>

store == <<threads, collections, tags, metadata>>

extension == <<threads, collections, tags, metadata, user, now, nextCol, nextTag, syncState>>

----------------------------------------------------------------------------
(* Program constants *)

MAX_FREE_THREADS == 50
STORAGE_VERSION == 1
DEFAULT == "default"
STORAGE_LIMIT_REACHED == "STORAGE_LIMIT_REACHED"
FORBIDDEN == "Cannot delete default collection"

(* Bounds of the model *)

MaxClock == 2          \* Date.now() takes the values 1..MaxClock
MaxCollections == 1    \* collections created by createCollection
MaxTags == 1           \* tags created by createTag
MaxThreadCount == 2    \* cap of metadata.threadCount under Spec and SpecTags
MaxTagCount == 2       \* cap of a tag's threadCount
MaxEntries == 3        \* threads of the store that is searched
MaxPage == 2           \* largest options.limit and options.offset of a search
MaxFiltered == 2       \* threads of the store that is filtered
MaxFolders == 2        \* collections created under SpecFolders
MaxLabels == 2         \* tags created under SpecLabels
MaxInstants == 51      \* Date.now() takes the values 1..MaxInstants under SpecEarly
MaxPending == 2        \* cap of the length of syncState.pendingChanges
MaxRows == 2           \* rows of the backend's collections table

(* Outcomes of a call that are no program constants *)

RETENTION == 90        \* days a free user's thread is kept (the clock counts days)
CHANGE_AGE == 1        \* days a pending change is kept
WRITE_FAILED == "WRITE_FAILED"   \* a chrome.storage.local.set call rejected
NoUser == [present |-> FALSE, isPremium |-> FALSE]   \* getUser() returns null
Users == {NoUser, [present |-> TRUE, isPremium |-> FALSE], [present |-> TRUE, isPremium |-> TRUE]}

(* Capture payloads handed to saveThread: the last path segment of the url   *)
(* ("" for a url that ends in '/') and the tweets of the capture.            *)
Slugs == {"s", ""}
TweetLists == {<<>>, <<"p">>}
Captures == [slug : Slugs, tweets : TweetLists]

Clock == 1..MaxClock
ThreadIds == {<<IF s = "" THEN ToString(c) ELSE s, c>> : s \in Slugs, c \in Clock}
ColIds == {ToString(i) : i \in 1..MaxCollections}
CollectionIds == {DEFAULT} \cup ColIds
TagIds == {ToString(i) : i \in 1..MaxTags}
FolderIds == {DEFAULT} \cup {ToString(i) : i \in 1..MaxFolders}
LabelIds == {ToString(i) : i \in 1..MaxLabels}

----------------------------------------------------------------------------
(* Helpers: JavaScript object and array primitives *)

Put(f, k, v) == [x \in DOMAIN f \cup {k} |-> IF x = k THEN v ELSE f[x]]
Drop(f, k) == [x \in DOMAIN f \ {k} |-> f[x]]
Includes(seq, x) == \E i \in 1..Len(seq) : seq[i] = x
Filter(seq, x) == SelectSeq(seq, LAMBDA y : y # x)
EmptyDoc == [x \in {} |-> x]

Store(th, co, tg, md) == [threads |-> th, collections |-> co, tags |-> tg, metadata |-> md]
Current == Store(threads, collections, tags, metadata)

\* What a call leaves behind: the store, the value returned or the error
\* thrown, and the number of backend writes the call issued.
Outcome(s, res, writes) == [store |-> s, res |-> res, writes |-> writes]

\* The k-th write of a call rejects when fail = k; fail = 0 is a healthy backend.
Fails(fail, k) == fail = k

----------------------------------------------------------------------------
(* Utility functions *)

generateThreadId(threadData, t) ==
    LET baseId == IF threadData.slug = "" THEN ToString(t) ELSE threadData.slug
    IN  <<baseId, t>>

\* generateId(prefix): timestamp plus a 9-digit base-36 random suffix; the
\* n-th id handed out is taken to differ from all earlier ones.
generateId(n) == ToString(n + 1)

\* user?.isPremium
isPremium(u) == u.present /\ u.isPremium

----------------------------------------------------------------------------
(* Collections *)

removeThreadFromCollection(s, threadId, collectionId, fail) ==
    IF collectionId \in DOMAIN s.collections
    THEN IF Fails(fail, 1)
         THEN Outcome(s, WRITE_FAILED, 1)
         ELSE Outcome([s EXCEPT !.collections[collectionId].threadIds = Filter(@, threadId)],
                      "true", 1)
    ELSE Outcome(s, "false", 0)

\* Mutant: the list is updated but the thread's collectionId field is not.
addThreadToCollection_KeepsField(s, threadId, collectionId, fail) ==
    IF collectionId \notin DOMAIN s.collections \/ threadId \notin DOMAIN s.threads
    THEN Outcome(s, "false", 0)
    ELSE LET oldCollectionId == s.threads[threadId].collectionId
             removed == IF oldCollectionId \in DOMAIN s.collections
                        THEN [s.collections EXCEPT ![oldCollectionId].threadIds = Filter(@, threadId)]
                        ELSE s.collections
             added == IF ~Includes(removed[collectionId].threadIds, threadId)
                      THEN [removed EXCEPT ![collectionId].threadIds = Append(@, threadId)]
                      ELSE removed
         IN  IF Fails(fail, 1)
             THEN Outcome(s, WRITE_FAILED, 1)
             ELSE Outcome([s EXCEPT !.collections = added], "true", 1)

\* Mutant: only the collection id is looked up; a missing thread is listed.
addThreadToCollection_CollectionOnly(s, threadId, collectionId, fail) ==
    IF collectionId \notin DOMAIN s.collections
    THEN Outcome(s, "false", 0)
    ELSE LET oldCollectionId == IF threadId \in DOMAIN s.threads
                                THEN s.threads[threadId].collectionId ELSE collectionId
             removed == IF oldCollectionId \in DOMAIN s.collections
                        THEN [s.collections EXCEPT ![oldCollectionId].threadIds = Filter(@, threadId)]
                        ELSE s.collections
             added == IF ~Includes(removed[collectionId].threadIds, threadId)
                      THEN [removed EXCEPT ![collectionId].threadIds = Append(@, threadId)]
                      ELSE removed
         IN  IF Fails(fail, 1)
             THEN Outcome(s, WRITE_FAILED, 1)
             ELSE Outcome([s EXCEPT !.collections = added,
                                    !.threads = [id \in DOMAIN @ |->
                                                   IF id = threadId
                                                   THEN [@[id] EXCEPT !.collectionId = collectionId]
                                                   ELSE @[id]]],
                          "true", 1)

addThreadToCollection(s, threadId, collectionId, fail) ==
    IF collectionId \notin DOMAIN s.collections \/ threadId \notin DOMAIN s.threads
    THEN Outcome(s, "false", 0)
    ELSE LET oldCollectionId == s.threads[threadId].collectionId
             removed == IF oldCollectionId \in DOMAIN s.collections
                        THEN [s.collections EXCEPT ![oldCollectionId].threadIds = Filter(@, threadId)]
                        ELSE s.collections
             added == IF ~Includes(removed[collectionId].threadIds, threadId)
                      THEN [removed EXCEPT ![collectionId].threadIds = Append(@, threadId)]
                      ELSE removed
         IN  IF Fails(fail, 1)
             THEN Outcome(s, WRITE_FAILED, 1)
             ELSE Outcome([s EXCEPT !.collections = added,
                                    !.threads[threadId].collectionId = collectionId],
                          "true", 1)

createCollection(s, n, fail) ==
    LET collectionId == generateId(n)
    IN  IF Fails(fail, 1)
        THEN Outcome(s, WRITE_FAILED, 1)
        ELSE Outcome([s EXCEPT !.collections = Put(@, collectionId, [threadIds |-> <<>>])],
                     "collection", 1)

\* The loop of deleteCollection over the first k entries of threadIds.
RECURSIVE moveToDefault(_, _, _)
moveToDefault(s, threadIds, k) ==
    IF k = 0 THEN s
    ELSE LET prev == moveToDefault(s, threadIds, k - 1)
             threadId == threadIds[k]
         IN  IF threadId \in DOMAIN prev.threads
             THEN [prev EXCEPT !.threads[threadId].collectionId = DEFAULT,
                               !.collections[DEFAULT].threadIds = Append(@, threadId)]
             ELSE prev

\* Mutant: no guard for the default collection.
deleteCollection_Unguarded(s, collectionId, fail) ==
    LET threadIds == IF collectionId \in DOMAIN s.collections
                     THEN s.collections[collectionId].threadIds ELSE <<>>
        moved == moveToDefault(s, threadIds, Len(threadIds))
    IN  IF Fails(fail, 1)
        THEN Outcome(s, WRITE_FAILED, 1)
        ELSE Outcome([moved EXCEPT !.collections = Drop(@, collectionId)], "true", 1)

\* Mutant: the collection is dropped and its threads are left as they are.
deleteCollection_DropsOnly(s, collectionId, fail) ==
    IF collectionId = DEFAULT
    THEN Outcome(s, FORBIDDEN, 0)
    ELSE IF Fails(fail, 1)
         THEN Outcome(s, WRITE_FAILED, 1)
         ELSE Outcome([s EXCEPT !.collections = Drop(@, collectionId)], "true", 1)

deleteCollection(s, collectionId, fail) ==
    IF collectionId = DEFAULT
    THEN Outcome(s, FORBIDDEN, 0)
    ELSE LET threadIds == IF collectionId \in DOMAIN s.collections
                          THEN s.collections[collectionId].threadIds ELSE <<>>
             moved == moveToDefault(s, threadIds, Len(threadIds))
         IN  IF Fails(fail, 1)
             THEN Outcome(s, WRITE_FAILED, 1)
             ELSE Outcome([moved EXCEPT !.collections = Drop(@, collectionId)], "true", 1)

----------------------------------------------------------------------------
(* Threads *)

\* metadata.threadCount >= MAX_FREE_THREADS, false for a counter that is not
\* a number (undefined in a metadata document read as {}, or NaN).
limitReached(md) == "threadCount" \in DOMAIN md /\ md.threadCount >= MAX_FREE_THREADS

\* metadata.threadCount++ and metadata.threadCount--: a counter that is not a
\* number becomes NaN, which the later comparisons and increments treat as
\* they treat undefined; the document is then left without a numeric counter.
adjust(md, d) == IF "threadCount" \in DOMAIN md THEN [md EXCEPT !.threadCount = @ + d] ELSE md

newThread(threadData) ==
    [tweets |-> threadData.tweets, tags |-> <<>>, collectionId |-> DEFAULT]

\* Mutant: the quota test is > where the code has >=.
saveThread_QuotaOffByOne(s, u, t, threadData, fail) ==
    IF ~isPremium(u) /\ s.metadata.threadCount > MAX_FREE_THREADS
    THEN Outcome(s, STORAGE_LIMIT_REACHED, 0)
    ELSE LET threadId == generateThreadId(threadData, t)
             saved == [s EXCEPT !.threads = Put(@, threadId, newThread(threadData)),
                                !.metadata.threadCount = @ + 1]
         IN  IF Fails(fail, 1)
             THEN Outcome(s, WRITE_FAILED, 1)
             ELSE LET filed == addThreadToCollection(saved, threadId, DEFAULT, fail - 1)
                  IN  IF filed.res = WRITE_FAILED
                      THEN Outcome(saved, WRITE_FAILED, 1 + filed.writes)
                      ELSE Outcome(filed.store, "thread", 1 + filed.writes)

saveThread(s, u, t, threadData, fail) ==
    IF ~isPremium(u) /\ limitReached(s.metadata)
    THEN Outcome(s, STORAGE_LIMIT_REACHED, 0)
    ELSE LET threadId == generateThreadId(threadData, t)
             saved == [s EXCEPT !.threads = Put(@, threadId, newThread(threadData)),
                                !.metadata = adjust(@, 1)]
         IN  IF Fails(fail, 1)
             THEN Outcome(s, WRITE_FAILED, 1)
             ELSE LET filed == addThreadToCollection(saved, threadId, DEFAULT, fail - 1)
                  IN  IF filed.res = WRITE_FAILED
                      THEN Outcome(saved, WRITE_FAILED, 1 + filed.writes)
                      ELSE Outcome(filed.store, "thread", 1 + filed.writes)

\* What a call that returns an object leaves as its result: the object, null,
\* or the error thrown.
Null == [null |-> TRUE]
Thrown(e) == [error |-> e]

\* { ...a, ...b }: the fields of a, overlaid with those of b.
Spread(a, b) == [k \in DOMAIN a \cup DOMAIN b |-> IF k \in DOMAIN b THEN b[k] ELSE a[k]]

\* Mutant: lastModified is spread before the updates, which may overwrite it.
updateThread_StampFirst(s, t, threadId, updates, fail) ==
    IF threadId \in DOMAIN s.threads
    THEN LET updated == Spread(Spread(s.threads[threadId], [lastModified |-> t]), updates)
         IN  IF Fails(fail, 1)
             THEN Outcome(s, Thrown(WRITE_FAILED), 1)
             ELSE Outcome([s EXCEPT !.threads[threadId] = updated], updated, 1)
    ELSE Outcome(s, Null, 0)

\* Returns the stored record, or null for an id that is not stored.
updateThread(s, t, threadId, updates, fail) ==
    IF threadId \in DOMAIN s.threads
    THEN LET updated == Spread(Spread(s.threads[threadId], updates), [lastModified |-> t])
         IN  IF Fails(fail, 1)
             THEN Outcome(s, Thrown(WRITE_FAILED), 1)
             ELSE Outcome([s EXCEPT !.threads[threadId] = updated], updated, 1)
    ELSE Outcome(s, Null, 0)

\* Mutant: the counter is decremented and written whether or not the thread exists.
deleteThread_AlwaysDecrements(s, threadId, fail) ==
    LET unfiled == IF threadId \in DOMAIN s.threads
                   THEN removeThreadFromCollection(s, threadId, s.threads[threadId].collectionId, fail)
                   ELSE Outcome(s, "false", 0)
    IN  IF unfiled.res = WRITE_FAILED
        THEN Outcome(s, WRITE_FAILED, unfiled.writes)
        ELSE IF Fails(fail, unfiled.writes + 1)
             THEN Outcome(unfiled.store, WRITE_FAILED, unfiled.writes + 1)
             ELSE Outcome([unfiled.store EXCEPT !.threads = Drop(s.threads, threadId),
                                                !.metadata.threadCount = s.metadata.threadCount - 1],
                          "true", unfiled.writes + 1)

deleteThread(s, threadId, fail) ==
    IF threadId \in DOMAIN s.threads
    THEN LET unfiled == removeThreadFromCollection(s, threadId, s.threads[threadId].collectionId, fail)
         IN  IF unfiled.res = WRITE_FAILED
             THEN Outcome(s, WRITE_FAILED, unfiled.writes)
             ELSE IF Fails(fail, unfiled.writes + 1)
                  THEN Outcome(unfiled.store, WRITE_FAILED, unfiled.writes + 1)
                  ELSE Outcome([unfiled.store EXCEPT !.threads = Drop(s.threads, threadId),
                                                     !.metadata = adjust(s.metadata, -1)],
                               "true", unfiled.writes + 1)
    ELSE Outcome(s, "false", 0)

----------------------------------------------------------------------------
(* Initialization *)

\* The documents setupInitialStorage() writes in one set() call.
setupInitialStorage ==
    Store(EmptyDoc, [c \in {DEFAULT} |-> [threadIds |-> <<>>]], EmptyDoc,
          [version |-> STORAGE_VERSION, threadCount |-> 0])

\* initialize(): fail = 1 rejects the get() of getMetadata, fail = 2 the set()
\* of setupInitialStorage; migrateStorage() does nothing.
initialize(s, fail) ==
    IF Fails(fail, 1)
    THEN Outcome(s, "false", 0)
    ELSE IF "version" \notin DOMAIN s.metadata
         THEN IF Fails(fail, 2)
              THEN Outcome(s, "false", 1)
              ELSE Outcome(setupInitialStorage, "true", 1)
         ELSE Outcome(s, "true", 0)

\* What set() keeps of a metadata document whose counter is NaN: the NaN, or
\* no counter at all ("NaN": not a number either way), or null, which the
\* code's comparisons and increments treat as 0 ("null").
NaNForms == {"NaN", "null"}
serialize(md, form) ==
    IF "threadCount" \in DOMAIN md \/ form = "NaN"
    THEN md
    ELSE [k \in DOMAIN md \cup {"threadCount"} |-> IF k = "threadCount" THEN 0 ELSE md[k]]

----------------------------------------------------------------------------
(* Service worker: cleanup and sync state *)

\* thread.savedAt: the Date.now() of the save, which is also the timestamp
\* part of the thread's id.
savedAt(threadId) == threadId[2]

\* performCleanup, first half: a free user's threads saved before the cutoff
\* are deleted from the threads document, metadata.threadCount is set to the
\* number of threads left, and both documents are written if any was deleted.
expire(s, u, t) ==
    LET kept == {id \in DOMAIN s.threads : ~(savedAt(id) < t - RETENTION)}
    IN  IF ~isPremium(u) /\ kept # DOMAIN s.threads
        THEN [s EXCEPT !.threads = [id \in kept |-> s.threads[id]],
                       !.metadata = Spread(@, [threadCount |-> Cardinality(kept)])]
        ELSE s

\* getSyncState(): the stored document, or the default for an absent one.
getSyncState(sync) ==
    IF sync = EmptyDoc
    THEN [lastSync |-> 0, pendingChanges |-> <<>>, syncEnabled |-> FALSE]
    ELSE sync

updateSyncState(sync, updates) == Spread(getSyncState(sync), updates)

addPendingChange(sync, change, t) ==
    LET syncState0 == getSyncState(sync)
        pushed == [syncState0 EXCEPT !.pendingChanges =
                                        Append(@, Spread(change, [timestamp |-> t]))]
    IN  updateSyncState(sync, pushed)

\* syncThreads: the threads modified since the last sync.  saveThread sets no
\* lastModified, updateThread does.
modifiedThreads(th, sync) ==
    {id \in DOMAIN th :
       sync.lastSync = 0
       \/ ("lastModified" \in DOMAIN th[id] /\ th[id].lastModified > sync.lastSync)}

\* syncThreads: { ...threads } of the threads read before the request,
\* overlaid with the threads of the server's response.
mergeServer(snapshot, result) ==
    [id \in DOMAIN snapshot \cup DOMAIN result |->
       IF id \in DOMAIN result THEN result[id] ELSE snapshot[id]]

\* performCleanup, second half: pending changes older than CHANGE_AGE are
\* filtered out of a stored syncState, which is written if any was.
dropOld(sync, t) ==
    IF sync # EmptyDoc
    THEN [sync EXCEPT !.pendingChanges =
                         SelectSeq(@, LAMBDA change : change.timestamp > t - CHANGE_AGE)]
    ELSE sync

----------------------------------------------------------------------------
(* Tags *)

Max(a, b) == IF a >= b THEN a ELSE b

createTag(s, n, fail) ==
    LET tagId == generateId(n)
    IN  IF Fails(fail, 1)
        THEN Outcome(s, WRITE_FAILED, 1)
        ELSE Outcome([s EXCEPT !.tags = Put(@, tagId, [threadCount |-> 0])], "tag", 1)

\* Mutant: no test whether the thread already holds the tag.
addTagToThread_NoIncludes(s, threadId, tagId, fail) ==
    IF threadId \in DOMAIN s.threads /\ tagId \in DOMAIN s.tags
    THEN IF Fails(fail, 1)
         THEN Outcome(s, WRITE_FAILED, 1)
         ELSE Outcome([s EXCEPT !.threads[threadId].tags = Append(@, tagId),
                                !.tags[tagId].threadCount = @ + 1],
                      "true", 1)
    ELSE Outcome(s, "false", 0)

addTagToThread(s, threadId, tagId, fail) ==
    IF threadId \in DOMAIN s.threads /\ tagId \in DOMAIN s.tags
       /\ ~Includes(s.threads[threadId].tags, tagId)
    THEN IF Fails(fail, 1)
         THEN Outcome(s, WRITE_FAILED, 1)
         ELSE Outcome([s EXCEPT !.threads[threadId].tags = Append(@, tagId),
                                !.tags[tagId].threadCount = @ + 1],
                      "true", 1)
    ELSE Outcome(s, "false", 0)

removeTagFromThread(s, threadId, tagId, fail) ==
    IF threadId \in DOMAIN s.threads /\ tagId \in DOMAIN s.tags
    THEN IF Fails(fail, 1)
         THEN Outcome(s, WRITE_FAILED, 1)
         ELSE Outcome([s EXCEPT !.threads[threadId].tags = Filter(@, tagId),
                                !.tags[tagId].threadCount = Max(0, @ - 1)],
                      "true", 1)
    ELSE Outcome(s, "false", 0)

\* Mutant: the tag record is dropped and the threads are not swept.
deleteTag_NoSweep(s, tagId, fail) ==
    IF tagId \notin DOMAIN s.tags
    THEN Outcome(s, "false", 0)
    ELSE IF Fails(fail, 1)
         THEN Outcome(s, WRITE_FAILED, 1)
         ELSE Outcome([s EXCEPT !.tags = Drop(@, tagId)], "true", 1)

deleteTag(s, tagId, fail) ==
    IF tagId \notin DOMAIN s.tags
    THEN Outcome(s, "false", 0)
    ELSE IF Fails(fail, 1)
         THEN Outcome(s, WRITE_FAILED, 1)
         ELSE Outcome([s EXCEPT !.threads = [id \in DOMAIN @ |->
                                               IF Includes(@[id].tags, tagId)
                                               THEN [@[id] EXCEPT !.tags = Filter(@, tagId)]
                                               ELSE @[id]],
                                !.tags = Drop(@, tagId)],
                      "true", 1)

----------------------------------------------------------------------------
(* Strings and search.  A string is the sequence of its characters.          *)

\* The letters that have two cases, as <<upper, lower>>.
CasePairs == {<<"A", "a">>, <<"B", "b">>, <<"E", "e">>, <<"L", "l">>,
              <<"M", "m">>, <<"N", "n">>, <<"O", "o">>, <<"S", "s">>}

toLowerCase(str) ==
    [i \in 1..Len(str) |->
       IF \E pr \in CasePairs : pr[1] = str[i]
       THEN (CHOOSE pr \in CasePairs : pr[1] = str[i])[2]
       ELSE str[i]]

\* str.indexOf(sub): the first 0-based position of sub in str, or -1.
indexOf(str, sub) ==
    LET at == {i \in 0..(Len(str) - Len(sub)) : SubSeq(str, i + 1, i + Len(sub)) = sub}
    IN  IF at = {} THEN -1 ELSE CHOOSE i \in at : \A j \in at : i <= j

includes(str, sub) == indexOf(str, sub) # -1

Min(a, b) == IF a <= b THEN a ELSE b

\* arr.slice(start, end) for 0 <= start
slice(arr, start, end) ==
    IF start >= Min(end, Len(arr)) THEN <<>> ELSE SubSeq(arr, start + 1, Min(end, Len(arr)))

contextLength == 50
Ellipsis == <<".", ".", ".">>

getSnippet(text, query) ==
    LET index == indexOf(toLowerCase(text), toLowerCase(query))
        start == Max(0, index - contextLength)
        end == Min(Len(text), index + Len(query) + contextLength)
        cut == slice(text, start, end)
        headed == IF start > 0 THEN Ellipsis \o cut ELSE cut
    IN  IF index = -1 THEN slice(text, 0, 100) \o Ellipsis
        ELSE IF end < Len(text) THEN headed \o Ellipsis ELSE headed

\* Object.entries(threads): the keys in the order of their insertion.  Thread
\* ids carry the clock value of their save, so the order is that of the ids'
\* timestamps when no two threads were saved at the same clock value.
RECURSIVE entriesOf(_)
entriesOf(th) ==
    IF DOMAIN th = {} THEN <<>>
    ELSE LET newest == CHOOSE id \in DOMAIN th : \A o \in DOMAIN th : o[2] <= id[2]
         IN  Append(entriesOf(Drop(th, newest)), newest)

\* thread.tweets.forEach over the first k tweets: the score and the matches so far.
RECURSIVE scanTweets(_, _, _)
scanTweets(tweets, queryLower, k) ==
    IF k = 0 THEN [score |-> 0, matches |-> <<>>]
    ELSE LET prev == scanTweets(tweets, queryLower, k - 1)
         IN  IF includes(toLowerCase(tweets[k].text), queryLower)
             THEN [score |-> prev.score + 10,
                   matches |-> Append(prev.matches,
                                      [type |-> "tweet", index |-> k - 1,
                                       snippet |-> getSnippet(tweets[k].text, queryLower)])]
             ELSE prev

\* The body of the loop of searchThreads for one thread.
scoreThread(id, thread, queryLower) ==
    LET inTweets == scanTweets(thread.tweets, queryLower, Len(thread.tweets))
        inAuthor == IF includes(toLowerCase(thread.authorUsername), queryLower)
                    THEN [score |-> inTweets.score + 20,
                          matches |-> Append(inTweets.matches,
                                             [type |-> "author", value |-> thread.authorUsername])]
                    ELSE inTweets
        inName == IF includes(toLowerCase(thread.authorName), queryLower)
                  THEN [score |-> inAuthor.score + 15,
                        matches |-> Append(inAuthor.matches,
                                           [type |-> "authorName", value |-> thread.authorName])]
                  ELSE inAuthor
    IN  [id |-> id, thread |-> thread, score |-> inName.score, matches |-> inName.matches]

\* The loop of searchThreads over the first k entries.
RECURSIVE collect(_, _, _, _)
collect(th, order, queryLower, k) ==
    IF k = 0 THEN <<>>
    ELSE LET prev == collect(th, order, queryLower, k - 1)
             entry == scoreThread(order[k], th[order[k]], queryLower)
         IN  IF entry.score > 0 THEN Append(prev, entry) ELSE prev

\* Mutant: an entry is placed before the entries of equal score.
RECURSIVE sortByScore_TiesReversed(_)
sortByScore_TiesReversed(results) ==
    IF results = <<>> THEN <<>>
    ELSE LET n == Len(results)
             front == sortByScore_TiesReversed(SubSeq(results, 1, n - 1))
             x == results[n]
             keep == Cardinality({i \in 1..Len(front) : front[i].score > x.score})
         IN  SubSeq(front, 1, keep) \o <<x>> \o SubSeq(front, keep + 1, Len(front))

\* results.sort((a, b) => b.score - a.score): Array.prototype.sort is stable,
\* an entry goes behind the entries of greater or equal score.
RECURSIVE sortByScore(_)
sortByScore(results) ==
    IF results = <<>> THEN <<>>
    ELSE LET n == Len(results)
             front == sortByScore(SubSeq(results, 1, n - 1))
             x == results[n]
             keep == Cardinality({i \in 1..Len(front) : front[i].score >= x.score})
         IN  SubSeq(front, 1, keep) \o <<x>> \o SubSeq(front, keep + 1, Len(front))

\* Mutant: the slice ends at limit, not at start + limit.
paginate_EndAtLimit(results, options) ==
    IF "limit" \in DOMAIN options /\ options.limit # 0
    THEN LET start == IF "offset" \in DOMAIN options THEN options.offset ELSE 0
         IN  slice(results, start, options.limit)
    ELSE results

\* if (options.limit) { ... slice(start, start + options.limit) }: a limit that
\* is missing or 0 is falsy.
paginate(results, options) ==
    IF "limit" \in DOMAIN options /\ options.limit # 0
    THEN LET start == IF "offset" \in DOMAIN options THEN options.offset ELSE 0
         IN  slice(results, start, start + options.limit)
    ELSE results

\* Mutant: the weights of the username and of the display name are swapped.
searchThreads_WeightsSwapped(th, query, options) ==
    LET queryLower == toLowerCase(query)
        order == entriesOf(th)
        swapped == [i \in 1..Len(order) |->
                      LET e == scoreThread(order[i], th[order[i]], queryLower)
                          u == includes(toLowerCase(e.thread.authorUsername), queryLower)
                          n == includes(toLowerCase(e.thread.authorName), queryLower)
                      IN  [e EXCEPT !.score = @ + (IF u THEN -5 ELSE 0) + (IF n THEN 5 ELSE 0)]]
    IN  paginate(sortByScore(SelectSeq(swapped, LAMBDA e : e.score > 0)), options)

searchThreads(th, query, options) ==
    LET queryLower == toLowerCase(query)
        order == entriesOf(th)
    IN  paginate(sortByScore(collect(th, order, queryLower, Len(order))), options)

\* Mutant: a thread passes the tags filter only if it holds every given tag.
passes_EveryTag(thread, filters) ==
    IF "collectionId" \in DOMAIN filters /\ filters.collectionId # ""
       /\ thread.collectionId # filters.collectionId
    THEN FALSE
    ELSE IF "tags" \in DOMAIN filters /\ Len(filters.tags) # 0
            /\ ~(\A i \in 1..Len(filters.tags) : Includes(thread.tags, filters.tags[i]))
    THEN FALSE
    ELSE IF "author" \in DOMAIN filters /\ filters.author # <<>>
            /\ ~includes(toLowerCase(thread.authorUsername), toLowerCase(filters.author))
    THEN FALSE
    ELSE IF "search" \in DOMAIN filters /\ filters.search # <<>>
    THEN LET searchLower == toLowerCase(filters.search)
         IN  \E k \in 1..Len(thread.tweets) :
                includes(toLowerCase(thread.tweets[k].text), searchLower)
    ELSE TRUE

\* The callback of the filter in getThreads; a filter that is missing, '', or
\* an empty array is falsy and is skipped.
passes(thread, filters) ==
    IF "collectionId" \in DOMAIN filters /\ filters.collectionId # ""
       /\ thread.collectionId # filters.collectionId
    THEN FALSE
    ELSE IF "tags" \in DOMAIN filters /\ Len(filters.tags) # 0
            /\ ~(\E i \in 1..Len(filters.tags) : Includes(thread.tags, filters.tags[i]))
    THEN FALSE
    ELSE IF "author" \in DOMAIN filters /\ filters.author # <<>>
            /\ ~includes(toLowerCase(thread.authorUsername), toLowerCase(filters.author))
    THEN FALSE
    ELSE IF "search" \in DOMAIN filters /\ filters.search # <<>>
    THEN LET searchLower == toLowerCase(filters.search)
         IN  \E k \in 1..Len(thread.tweets) :
                includes(toLowerCase(thread.tweets[k].text), searchLower)
    ELSE TRUE

getThreads(th, filters) ==
    IF DOMAIN filters = {}
    THEN th
    ELSE [id \in {x \in DOMAIN th : passes(th[x], filters)} |-> th[id]]

----------------------------------------------------------------------------
(* The state machine: one action per public operation of StorageManager *)

\* The execution contexts that share the backend (two tabs' content scripts),
\* and a context with no call in flight.
Contexts == {"tab1", "tab2"}
Idle == [pc |-> "idle"]

\* setupInitialStorage() on an empty backend: no 'auth' document yet.
Init ==
    /\ threads = EmptyDoc
    /\ collections = [c \in {DEFAULT} |-> [threadIds |-> <<>>]]
    /\ tags = EmptyDoc
    /\ metadata = [version |-> STORAGE_VERSION, threadCount |-> 0]
    /\ user = NoUser
    /\ now = 1
    /\ nextCol = 0
    /\ nextTag = 0
    /\ last = [op |-> "initialize", res |-> "true", writes |-> 1]
    /\ calls = [p \in Contexts |-> Idle]
    /\ syncState = EmptyDoc
    /\ db = [unique |-> TRUE, collections |-> EmptyDoc]

\* The persisted documents and the record of the call after a call that left `out`.
Commit(op, out) ==
    /\ threads' = out.store.threads
    /\ collections' = out.store.collections
    /\ tags' = out.store.tags
    /\ metadata' = out.store.metadata
    /\ last' = [op |-> op, res |-> out.res, writes |-> out.writes]
    /\ calls' = calls
    /\ UNCHANGED <<syncState, db>>

\* Date.now() moves on, up to `limit`.
TickTo(limit) ==
    /\ now < limit
    /\ now' = now + 1
    /\ UNCHANGED <<threads, collections, tags, metadata, user, nextCol, nextTag, last, calls,
                   syncState, db>>

Tick == TickTo(MaxClock)

SetUser(userData) ==
    /\ user' = userData
    /\ last' = [op |-> "setUser", res |-> "undefined", writes |-> 1]
    /\ UNCHANGED <<threads, collections, tags, metadata, now, nextCol, nextTag, calls,
                   syncState, db>>

SaveThread(threadData, fail) ==
    /\ Commit("saveThread", saveThread(Current, user, now, threadData, fail))
    /\ UNCHANGED <<user, now, nextCol, nextTag>>

DeleteThread(threadId, fail) ==
    /\ Commit("deleteThread", deleteThread(Current, threadId, fail))
    /\ UNCHANGED <<user, now, nextCol, nextTag>>

UpdateThread(threadId, updates, fail) ==
    /\ Commit("updateThread", updateThread(Current, now, threadId, updates, fail))
    /\ UNCHANGED <<user, now, nextCol, nextTag>>

CreateCollection(fail) ==
    /\ Commit("createCollection", createCollection(Current, nextCol, fail))
    /\ nextCol' = nextCol + 1
    /\ UNCHANGED <<user, now, nextTag>>

DeleteCollection(collectionId, fail) ==
    /\ Commit("deleteCollection", deleteCollection(Current, collectionId, fail))
    /\ UNCHANGED <<user, now, nextCol, nextTag>>

AddThreadToCollection(threadId, collectionId, fail) ==
    /\ Commit("addThreadToCollection", addThreadToCollection(Current, threadId, collectionId, fail))
    /\ UNCHANGED <<user, now, nextCol, nextTag>>

RemoveThreadFromCollection(threadId, collectionId, fail) ==
    /\ Commit("removeThreadFromCollection",
              removeThreadFromCollection(Current, threadId, collectionId, fail))
    /\ UNCHANGED <<user, now, nextCol, nextTag>>

CreateTag(fail) ==
    /\ Commit("createTag", createTag(Current, nextTag, fail))
    /\ nextTag' = nextTag + 1
    /\ UNCHANGED <<user, now, nextCol>>

AddTagToThread(threadId, tagId, fail) ==
    /\ Commit("addTagToThread", addTagToThread(Current, threadId, tagId, fail))
    /\ UNCHANGED <<user, now, nextCol, nextTag>>

RemoveTagFromThread(threadId, tagId, fail) ==
    /\ Commit("removeTagFromThread", removeTagFromThread(Current, threadId, tagId, fail))
    /\ UNCHANGED <<user, now, nextCol, nextTag>>

DeleteTag(tagId, fail) ==
    /\ Commit("deleteTag", deleteTag(Current, tagId, fail))
    /\ UNCHANGED <<user, now, nextCol, nextTag>>

(* saveThread as the event loop runs it: every await is a step of its own,    *)
(* and the steps of the calls of two contexts interleave.  A call's locals    *)
(* (threadData, threads, metadata, threadId, collections) live in calls[p];   *)
(* pc names the await the call is suspended at.                               *)

Suspend(p, locals) == calls' = [calls EXCEPT ![p] = Spread(calls[p], locals)]

BeginSave(p, threadData) ==
    /\ calls[p].pc = "idle"
    /\ calls' = [calls EXCEPT ![p] = [pc |-> "getThreads", threadData |-> threadData]]
    /\ UNCHANGED <<threads, collections, tags, metadata, user, now, nextCol, nextTag, last,
                   syncState, db>>

\* const threads = await this.getThreads()
SaveGetThreads(p) ==
    /\ calls[p].pc = "getThreads"
    /\ Suspend(p, [pc |-> "getMetadata", threads |-> threads])
    /\ UNCHANGED <<threads, collections, tags, metadata, user, now, nextCol, nextTag, last,
                   syncState, db>>

\* const metadata = await this.getMetadata()
SaveGetMetadata(p) ==
    /\ calls[p].pc = "getMetadata"
    /\ Suspend(p, [pc |-> "getUser", metadata |-> metadata])
    /\ UNCHANGED <<threads, collections, tags, metadata, user, now, nextCol, nextTag, last,
                   syncState, db>>

\* const user = await this.getUser(), the quota test and the in-memory
\* mutation, up to the await of calculateStorageUsed().
SaveGetUser(p) ==
    /\ calls[p].pc = "getUser"
    /\ IF ~isPremium(user) /\ limitReached(calls[p].metadata)
       THEN /\ Suspend(p, [pc |-> "done", res |-> STORAGE_LIMIT_REACHED])
            /\ last' = [op |-> "saveThread", res |-> STORAGE_LIMIT_REACHED, writes |-> 0]
       ELSE LET threadId == generateThreadId(calls[p].threadData, now)
            IN  /\ Suspend(p, [pc |-> "calculateStorageUsed",
                               threadId |-> threadId,
                               threads |-> Put(calls[p].threads, threadId,
                                               newThread(calls[p].threadData)),
                               metadata |-> adjust(calls[p].metadata, 1)])
                /\ last' = last
    /\ UNCHANGED <<threads, collections, tags, metadata, user, now, nextCol, nextTag,
                   syncState, db>>

\* metadata.storageUsed = await this.calculateStorageUsed()
SaveStorageUsed(p) ==
    /\ calls[p].pc = "calculateStorageUsed"
    /\ Suspend(p, [pc |-> "set"])
    /\ UNCHANGED <<threads, collections, tags, metadata, user, now, nextCol, nextTag, last,
                   syncState, db>>

\* Mutant: the write-back raises the stored counter instead of replacing it.
writeBack_Increment(s, locals) ==
    [s EXCEPT !.threads = locals.threads, !.metadata.threadCount = @ + 1]

\* set({ threads, metadata }): both documents are replaced by the call's copies.
writeBack(s, locals) ==
    [s EXCEPT !.threads = locals.threads, !.metadata = locals.metadata]

\* await chrome.storage.local.set({ threads, metadata })
SaveSet(p) ==
    /\ calls[p].pc = "set"
    /\ threads' = writeBack(Current, calls[p]).threads
    /\ \E form \in NaNForms :
          metadata' = serialize(writeBack(Current, calls[p]).metadata, form)
    /\ Suspend(p, [pc |-> "getCollections"])
    /\ UNCHANGED <<collections, tags, user, now, nextCol, nextTag, last, syncState, db>>

\* addThreadToCollection: const collections = await this.getCollections()
FileGetCollections(p) ==
    /\ calls[p].pc = "getCollections"
    /\ Suspend(p, [pc |-> "getThreads2", collections |-> collections])
    /\ UNCHANGED <<threads, collections, tags, metadata, user, now, nextCol, nextTag, last,
                   syncState, db>>

\* addThreadToCollection: const threads = await this.getThreads(), the lookups
\* and the in-memory mutation, up to the await of set(); saveThread returns
\* the thread whatever addThreadToCollection returns.
FileGetThreads(p) ==
    /\ calls[p].pc = "getThreads2"
    /\ LET filed == addThreadToCollection(Store(threads, calls[p].collections, tags, metadata),
                                          calls[p].threadId, DEFAULT, 0)
       IN  IF filed.res = "false"
           THEN /\ Suspend(p, [pc |-> "done", res |-> "thread", threads |-> threads])
                /\ last' = [op |-> "saveThread", res |-> "thread", writes |-> 1]
           ELSE /\ Suspend(p, [pc |-> "set2",
                               threads |-> filed.store.threads,
                               collections |-> filed.store.collections])
                /\ last' = last
    /\ UNCHANGED <<threads, collections, tags, metadata, user, now, nextCol, nextTag,
                   syncState, db>>

\* addThreadToCollection: await chrome.storage.local.set({ collections, threads })
FileSet(p) ==
    /\ calls[p].pc = "set2"
    /\ threads' = calls[p].threads
    /\ collections' = calls[p].collections
    /\ Suspend(p, [pc |-> "done", res |-> "thread"])
    /\ last' = [op |-> "saveThread", res |-> "thread", writes |-> 2]
    /\ UNCHANGED <<tags, metadata, user, now, nextCol, nextTag, syncState, db>>

(* The calls made on a backend that may not have been initialized: the       *)
(* popup and the sidebar call initialize(), the content script does not.      *)

Initialize(fail) ==
    /\ Commit("initialize", initialize(Current, fail))
    /\ UNCHANGED <<user, now, nextCol, nextTag>>

\* saveThread on a healthy backend, with the form its set() keeps a NaN in.
SaveThreadFrom(threadData, form) ==
    LET out == saveThread(Current, user, now, threadData, 0)
    IN  /\ Commit("saveThread",
                  IF out.res = "thread"
                  THEN [out EXCEPT !.store.metadata = serialize(@, form)]
                  ELSE out)
        /\ UNCHANGED <<user, now, nextCol, nextTag>>

\* deleteThread on a healthy backend, with the form its set() keeps a NaN in.
DeleteThreadFrom(threadId, form) ==
    LET out == deleteThread(Current, threadId, 0)
    IN  /\ Commit("deleteThread",
                  IF out.res = "true"
                  THEN [out EXCEPT !.store.metadata = serialize(@, form)]
                  ELSE out)
        /\ UNCHANGED <<user, now, nextCol, nextTag>>

\* OptionsPage.clearAllData(): chrome.storage.local.clear() removes every
\* document; the set() that follows restores 'userPrefs' only.
ClearAllData ==
    /\ threads' = EmptyDoc
    /\ collections' = EmptyDoc
    /\ tags' = EmptyDoc
    /\ metadata' = EmptyDoc
    /\ user' = NoUser
    /\ syncState' = EmptyDoc
    /\ last' = [op |-> "clearAllData", res |-> "undefined", writes |-> 2]
    /\ UNCHANGED <<now, nextCol, nextTag, calls, db>>

(* The service worker's periodic cleanup (alarm 'cleanup'), on a healthy      *)
(* backend.                                                                   *)
PerformCleanup ==
    /\ threads' = expire(Current, user, now).threads
    /\ metadata' = expire(Current, user, now).metadata
    /\ syncState' = dropOld(syncState, now)
    /\ last' = [op |-> "performCleanup", res |-> "undefined",
                writes |-> (IF threads' # threads THEN 1 ELSE 0)
                           + (IF syncState' # syncState THEN 1 ELSE 0)]
    /\ UNCHANGED <<collections, tags, user, nextCol, nextTag, now, calls, db>>

\* The retention period passes.
Elapse ==
    /\ now <= MaxClock
    /\ now' = now + RETENTION
    /\ UNCHANGED <<threads, collections, tags, metadata, user, nextCol, nextTag, last, calls,
                   syncState, db>>

(* syncThreads in the service worker.  The interval timer of startSync, the   *)
(* 'sync' alarm and the timeout of scheduleSyncUpdate each start a call, and  *)
(* nothing keeps two calls from overlapping; every await is a step.           *)
Triggers == {"interval", "alarm"}

\* The change handed to addPendingChange, and what the server's response
\* carries in result.threads: nothing, or one thread (keyed by its id).
Changes == {[type |-> "update"]}
Remote == <<"r", 1>>
Responses == {EmptyDoc, [id \in {Remote} |-> newThread([tweets |-> <<"p">>])]}

Return(p, res, writes) ==
    /\ calls' = [calls EXCEPT ![p] = Idle]
    /\ last' = [op |-> "syncThreads", res |-> res, writes |-> writes]

\* syncThreads is entered: 'Premium required' unless the user is premium.
BeginSync(p) ==
    /\ calls[p].pc = "idle"
    /\ IF isPremium(user)
       THEN Suspend(p, [pc |-> "get"]) /\ last' = last
       ELSE Return(p, "failure", 0)
    /\ UNCHANGED <<threads, collections, tags, metadata, user, now, nextCol, nextTag,
                   syncState, db>>

\* await chrome.storage.local.get(['threads', 'auth', 'syncState']), the
\* early returns and the request body, up to the await of fetch().
SyncGet(p) ==
    /\ calls[p].pc = "get"
    /\ LET sync == getSyncState(syncState)
           modified == modifiedThreads(threads, sync)
       IN  IF ~user.present
           THEN Return(p, "failure", 0)
           ELSE IF modified = {} /\ sync.pendingChanges = <<>>
                THEN Return(p, "success", 0)
                ELSE /\ Suspend(p, [pc |-> "fetch", threads |-> threads,
                                    body |-> [threads |-> modified,
                                              changes |-> sync.pendingChanges,
                                              lastSync |-> sync.lastSync]])
                     /\ last' = last
    /\ UNCHANGED <<threads, collections, tags, metadata, user, now, nextCol, nextTag,
                   syncState, db>>

\* The response arrives: not ok throws into the catch; otherwise the server's
\* threads are merged in memory, up to the next await of set().
SyncResponse(p, ok, result) ==
    /\ calls[p].pc = "fetch"
    /\ IF ~ok
       THEN Return(p, "failure", 0)
       ELSE /\ Suspend(p, IF result # EmptyDoc
                          THEN [pc |-> "setThreads",
                                updatedThreads |-> mergeServer(calls[p].threads, result)]
                          ELSE [pc |-> "setSyncState"])
            /\ last' = last
    /\ UNCHANGED <<threads, collections, tags, metadata, user, now, nextCol, nextTag,
                   syncState, db>>

\* await chrome.storage.local.set({ threads: updatedThreads })
SyncSetThreads(p) ==
    /\ calls[p].pc = "setThreads"
    /\ threads' = calls[p].updatedThreads
    /\ Suspend(p, [pc |-> "setSyncState"])
    /\ UNCHANGED <<collections, tags, metadata, user, now, nextCol, nextTag, last,
                   syncState, db>>

\* await chrome.storage.local.set({ syncState: { lastSync, pendingChanges: [] } })
SyncSetState(p) ==
    /\ calls[p].pc = "setSyncState"
    /\ syncState' = [lastSync |-> now, pendingChanges |-> <<>>]
    /\ Return(p, "success", IF "updatedThreads" \in DOMAIN calls[p] THEN 2 ELSE 1)
    /\ UNCHANGED <<threads, collections, tags, metadata, user, now, nextCol, nextTag, db>>

AddPendingChange(change) ==
    /\ syncState' = addPendingChange(syncState, change, now)
    /\ last' = [op |-> "addPendingChange", res |-> "undefined", writes |-> 1]
    /\ UNCHANGED <<threads, collections, tags, metadata, user, now, nextCol, nextTag, calls,
                   db>>

UpdateSyncState(updates) ==
    /\ syncState' = updateSyncState(syncState, updates)
    /\ last' = [op |-> "updateSyncState", res |-> "undefined", writes |-> 1]
    /\ UNCHANGED <<threads, collections, tags, metadata, user, now, nextCol, nextTag, calls,
                   db>>

(* The backend's collections API (backend/src/routes/collections.js), for    *)
(* one user.  Every pool.query is a step, and the requests of two clients     *)
(* interleave.  The collections table is created by initializeDatabase with   *)
(* UNIQUE(user_id, name) or by scripts/seed.js without it, whichever runs     *)
(* first: db.unique.                                                          *)
NULL == "NULL"
Clients == {"client1", "client2"}

\* Request bodies that pass validation: a name, a name with a parent, or a
\* parentId that moves a collection to the root or under collection "1".
Bodies ==
    {Spread(n, x) : n \in {[name |-> "a"], [name |-> "b"]},
                    x \in {EmptyDoc, [parentId |-> "1"]}}
    \cup {[parentId |-> NULL], [parentId |-> "1"]}

\* SELECT id FROM collections WHERE name = $2
\*   AND parent_id IS NOT DISTINCT FROM $3 AND id != $4
duplicateRows(table, name, parent, id) ==
    {r \in DOMAIN table : table[r].name = name /\ table[r].parent_id = parent /\ r # id}

\* The table after a write, or the table as it was when UNIQUE(user_id, name)
\* rejects the write.
write(d, id, row) ==
    IF d.unique /\ \E r \in DOMAIN d.collections \ {id} : d.collections[r].name = row.name
    THEN d
    ELSE [d EXCEPT !.collections = Put(@, id, row)]

Respond(p, status, writes) ==
    /\ calls' = [calls EXCEPT ![p] = Idle]
    /\ last' = [op |-> calls[p].op, res |-> status, writes |-> writes]

Request(p, op, locals) ==
    /\ calls[p].pc = "idle"
    /\ calls' = [calls EXCEPT ![p] = Spread([pc |-> op, op |-> op], locals)]
    /\ UNCHANGED <<db, last, extension>>

\* PUT: SELECT * FROM collections WHERE id = $1, and the test for a
\* collection that is its own parent.
Existing(p) ==
    /\ calls[p].pc = "PUT"
    /\ IF calls[p].id \notin DOMAIN db.collections
       THEN Respond(p, "404", 0)
       ELSE IF "parentId" \in DOMAIN calls[p].value /\ calls[p].value.parentId = calls[p].id
            THEN Respond(p, "400", 0)
            ELSE /\ Suspend(p, [pc |-> "parent",
                                existingCollection |-> db.collections[calls[p].id]])
                 /\ last' = last
    /\ UNCHANGED <<db, extension>>

\* POST and PUT: the parent named by a parentId that is not null must exist.
Parent(p) ==
    /\ calls[p].pc \in {"POST", "parent"}
    /\ IF /\ "parentId" \in DOMAIN calls[p].value
          /\ calls[p].value.parentId # NULL
          /\ calls[p].value.parentId \notin DOMAIN db.collections
       THEN Respond(p, "400", 0)
       ELSE Suspend(p, [pc |-> "duplicate"]) /\ last' = last
    /\ UNCHANGED <<db, extension>>

\* The duplicate check: POST looks at the level it inserts into; PUT looks
\* only when the name changes, at value.parentId || existingCollection.parent_id.
Duplicate(p) ==
    /\ calls[p].pc = "duplicate"
    /\ LET value == calls[p].value
           given == "parentId" \in DOMAIN value /\ value.parentId # NULL
           level == IF given THEN value.parentId
                    ELSE IF calls[p].op = "PUT" THEN calls[p].existingCollection.parent_id
                    ELSE NULL
           checked == calls[p].op = "POST"
                      \/ ("name" \in DOMAIN value
                          /\ value.name # calls[p].existingCollection.name)
       IN  IF checked /\ duplicateRows(db.collections, value.name, level, calls[p].id) # {}
           THEN Respond(p, "409", 0)
           ELSE IF calls[p].op = "PUT" /\ value = EmptyDoc
                THEN Respond(p, "400", 0)
                ELSE Suspend(p, [pc |-> "write"]) /\ last' = last
    /\ UNCHANGED <<db, extension>>

\* The row a request writes: POST inserts name and parent_id; PUT sets the
\* columns its body names on the row as it is stored now.
rowOf(table, call) ==
    LET value == call.value
        old == IF call.op = "PUT" /\ call.id \in DOMAIN table
               THEN table[call.id] ELSE [name |-> "", parent_id |-> NULL]
    IN  [name |-> IF "name" \in DOMAIN value THEN value.name ELSE old.name,
         parent_id |-> IF "parentId" \in DOMAIN value THEN value.parentId ELSE old.parent_id]

\* The id of the row a request writes: the :id of a PUT, or the id the
\* database generates for the row a POST inserts.
rowId(table, call) ==
    IF call.op = "POST" THEN ToString(Cardinality(DOMAIN table) + 1) ELSE call.id

\* INSERT INTO collections ... or UPDATE collections SET ...; a rejected
\* write throws into the catch, which answers 500.
Write(p) ==
    /\ calls[p].pc = "write"
    /\ LET row == rowOf(db.collections, calls[p])
           id == rowId(db.collections, calls[p])
           written == write(db, id, row)
           rejected == id \notin DOMAIN written.collections \/ written.collections[id] # row
       IN  /\ db' = written
           /\ Respond(p, IF rejected THEN "500"
                         ELSE IF calls[p].op = "POST" THEN "201" ELSE "200", 1)
    /\ UNCHANGED extension

\* fail = 0: the backend accepts every write; fail = k: the k-th write of the call
\* rejects.  saveThread and deleteThread issue up to two writes, the others one.
FailPoints == 0..2
OneWrite == 0..1

\* Captures of one url that hold tweets (what ThreadParser.parseThread lets
\* through), and the thread ids they are saved under.
Filled == {d \in Captures : d.tweets # <<>> /\ d.slug # ""}
FilledIds == {generateThreadId(d, t) : d \in Filled, t \in Clock}

\* Threads and collections.
Next ==
    \/ Tick
    \/ \E d \in Filled, f \in FailPoints :
          metadata.threadCount < MaxThreadCount /\ SaveThread(d, f)
    \/ \E id \in FilledIds, f \in FailPoints : DeleteThread(id, f)
    \/ \E f \in OneWrite : nextCol < MaxCollections /\ CreateCollection(f)
    \/ \E c \in CollectionIds, f \in OneWrite : DeleteCollection(c, f)
    \/ \E id \in FilledIds, c \in CollectionIds, f \in OneWrite : AddThreadToCollection(id, c, f)
    \/ \E id \in FilledIds, c \in CollectionIds, f \in OneWrite : RemoveThreadFromCollection(id, c, f)

Spec == Init /\ [][Next]_vars

\* Threads and tags.
NextTags ==
    \/ Tick
    \/ \E d \in Filled, f \in FailPoints :
          metadata.threadCount < MaxThreadCount /\ SaveThread(d, f)
    \/ \E id \in FilledIds, f \in FailPoints : DeleteThread(id, f)
    \/ \E f \in OneWrite : nextTag < MaxTags /\ CreateTag(f)
    \/ \E id \in FilledIds, g \in TagIds, f \in OneWrite :
          (g \in DOMAIN tags => tags[g].threadCount < MaxTagCount) /\ AddTagToThread(id, g, f)
    \/ \E id \in FilledIds, g \in TagIds, f \in OneWrite : RemoveTagFromThread(id, g, f)
    \/ \E g \in TagIds, f \in OneWrite : DeleteTag(g, f)

SpecTags == Init /\ [][NextTags]_vars

\* Saves and deletes by a user who logs in and out, on a healthy backend, with
\* metadata.threadCount running up to the quota.
NextQuota ==
    \/ Tick
    \/ \E u \in Users : SetUser(u)
    \/ \E d \in Filled :
          metadata.threadCount <= MAX_FREE_THREADS /\ SaveThread(d, 0)
    \/ \E id \in FilledIds : DeleteThread(id, 0)

SpecQuota == Init /\ [][NextQuota]_vars

\* Saves of any capture payload at any clock value, and deletes, on a healthy backend.
NextCaptures ==
    \/ Tick
    \/ \E d \in Captures :
          metadata.threadCount < MaxThreadCount /\ SaveThread(d, 0)
    \/ \E id \in ThreadIds : DeleteThread(id, 0)

SpecCaptures == Init /\ [][NextCaptures]_vars

\* The partial records handed to updateThread: none of the fields, or new
\* tweets together with a lastModified of the caller's.
Updates == {EmptyDoc, [tweets |-> <<"q">>, lastModified |-> 0]}

\* Saves, updates and deletes.
NextUpdate ==
    \/ Tick
    \/ \E d \in Filled :
          metadata.threadCount < MaxThreadCount /\ SaveThread(d, 0)
    \/ \E id \in FilledIds : DeleteThread(id, 0)
    \/ \E id \in FilledIds, u \in Updates, f \in OneWrite : UpdateThread(id, u, f)

SpecUpdate == Init /\ [][NextUpdate]_vars

\* Captures of two urls that hold tweets, and the ids they are saved under
\* at the first clock value.
Pages == {d \in Captures : d.tweets # <<>>}
PageIds == {generateThreadId(d, 1) : d \in Pages}

\* One saveThread call in each of two contexts, their awaits interleaved.
NextRace ==
    \/ Tick
    \/ \E p \in Contexts, d \in Pages : BeginSave(p, d)
    \/ \E p \in Contexts : SaveGetThreads(p)
    \/ \E p \in Contexts : SaveGetMetadata(p)
    \/ \E p \in Contexts : SaveGetUser(p)
    \/ \E p \in Contexts : SaveStorageUsed(p)
    \/ \E p \in Contexts : SaveSet(p)
    \/ \E p \in Contexts : FileGetCollections(p)
    \/ \E p \in Contexts : FileGetThreads(p)
    \/ \E p \in Contexts : FileSet(p)

SpecRace == Init /\ [][NextRace]_vars

\* Two threads filed in up to MaxFolders collections, on a healthy backend.
NextFolders ==
    \/ \E d \in Pages :
          metadata.threadCount < MaxThreadCount /\ SaveThread(d, 0)
    \/ \E id \in PageIds : DeleteThread(id, 0)
    \/ nextCol < MaxFolders /\ CreateCollection(0)
    \/ \E c \in FolderIds : DeleteCollection(c, 0)
    \/ \E id \in PageIds, c \in FolderIds : AddThreadToCollection(id, c, 0)
    \/ \E id \in PageIds, c \in FolderIds : RemoveThreadFromCollection(id, c, 0)

SpecFolders == Init /\ [][NextFolders]_vars

\* Two threads labelled with up to MaxLabels tags, on a healthy backend.
NextLabels ==
    \/ \E d \in Pages :
          metadata.threadCount < MaxThreadCount /\ SaveThread(d, 0)
    \/ nextTag < MaxLabels /\ CreateTag(0)
    \/ \E id \in PageIds, g \in LabelIds :
          (g \in DOMAIN tags => tags[g].threadCount < MaxTagCount) /\ AddTagToThread(id, g, 0)
    \/ \E id \in PageIds, g \in LabelIds : RemoveTagFromThread(id, g, 0)
    \/ \E g \in LabelIds : DeleteTag(g, 0)

SpecLabels == Init /\ [][NextLabels]_vars

\* A backend nothing has been written to: every document is absent.
InitEmpty ==
    /\ threads = EmptyDoc
    /\ collections = EmptyDoc
    /\ tags = EmptyDoc
    /\ metadata = EmptyDoc
    /\ user = NoUser
    /\ now = 1
    /\ nextCol = 0
    /\ nextTag = 0
    /\ last = [op |-> "install", res |-> "undefined", writes |-> 0]
    /\ calls = [p \in Contexts |-> Idle]
    /\ syncState = EmptyDoc
    /\ db = [unique |-> TRUE, collections |-> EmptyDoc]

\* From installation on: initialize() in the popup, saves and deletes before
\* and after it, a save in a tab whose awaits interleave with the other
\* calls, and the options page's "clear all data".
NextInstall ==
    \/ \E f \in FailPoints : Initialize(f)
    \/ \E d \in Pages, form \in NaNForms :
          /\ "threadCount" \in DOMAIN metadata => metadata.threadCount < MaxThreadCount
          /\ SaveThreadFrom(d, form)
    \/ \E id \in PageIds, form \in NaNForms : DeleteThreadFrom(id, form)
    \/ ClearAllData
    \/ \E d \in Pages : BeginSave("tab1", d)
    \/ SaveGetThreads("tab1")
    \/ SaveGetMetadata("tab1")
    \/ SaveGetUser("tab1")
    \/ SaveStorageUsed("tab1")
    \/ SaveSet("tab1")
    \/ FileGetCollections("tab1")
    \/ FileGetThreads("tab1")
    \/ FileSet("tab1")

SpecInstall == InitEmpty /\ [][NextInstall]_vars

\* The one capture saved under SpecEarly, and the id it gets at instant t.
Early == [slug |-> "s", tweets |-> <<"p">>]

\* A user who never logs in saves a thread at each instant; the newest thread
\* may be deleted again, and initialize() runs at any point.
NextEarly ==
    \/ generateThreadId(Early, now) \in DOMAIN threads /\ TickTo(MaxInstants)
    \/ \E form \in NaNForms :
          generateThreadId(Early, now) \notin DOMAIN threads /\ SaveThreadFrom(Early, form)
    \/ \E form \in NaNForms : DeleteThreadFrom(generateThreadId(Early, now), form)
    \/ Initialize(0)

SpecEarly == InitEmpty /\ [][NextEarly]_vars

\* A free or premium user's threads, filed and tagged, age past the retention
\* period and the service worker cleans up.
NextCleanup ==
    \/ Tick
    \/ Elapse
    \/ \E u \in Users : SetUser(u)
    \/ \E d \in Filled :
          metadata.threadCount < MaxThreadCount /\ SaveThread(d, 0)
    \/ nextTag < MaxTags /\ CreateTag(0)
    \/ \E id \in FilledIds, g \in TagIds :
          (g \in DOMAIN tags => tags[g].threadCount < MaxTagCount) /\ AddTagToThread(id, g, 0)
    \/ PerformCleanup

SpecCleanup == Init /\ [][NextCleanup]_vars

\* An initialized store, a user logged in, and a service worker with no
\* syncThreads call running.
InitSync ==
    /\ threads = EmptyDoc
    /\ collections = [c \in {DEFAULT} |-> [threadIds |-> <<>>]]
    /\ tags = EmptyDoc
    /\ metadata = [version |-> STORAGE_VERSION, threadCount |-> 0]
    /\ user \in {u \in Users : u.present}
    /\ now = 1
    /\ nextCol = 0
    /\ nextTag = 0
    /\ last = [op |-> "initialize", res |-> "true", writes |-> 1]
    /\ calls = [p \in Triggers |-> Idle]
    /\ syncState = EmptyDoc
    /\ db = [unique |-> TRUE, collections |-> EmptyDoc]

\* The steps of the syncThreads calls.
SyncSteps ==
    \/ \E p \in Triggers : BeginSync(p)
    \/ \E p \in Triggers : SyncGet(p)
    \/ \E p \in Triggers, ok \in BOOLEAN, result \in Responses : SyncResponse(p, ok, result)
    \/ \E p \in Triggers : SyncSetThreads(p)
    \/ \E p \in Triggers : SyncSetState(p)

\* Pending changes are recorded, synced and cleaned up.
NextPending ==
    \/ Tick
    \/ SyncSteps
    \/ \E change \in Changes :
          Len(getSyncState(syncState).pendingChanges) < MaxPending /\ AddPendingChange(change)
    \/ UpdateSyncState([syncEnabled |-> TRUE])
    \/ PerformCleanup

SpecPending == InitSync /\ [][NextPending]_vars

\* Threads are saved and deleted while syncThreads calls run.
NextSync ==
    \/ SyncSteps
    \/ \E d \in Pages :
          metadata.threadCount < MaxThreadCount /\ SaveThread(d, 0)
    \/ \E id \in PageIds : DeleteThread(id, 0)

SpecSync == InitSync /\ [][NextSync]_vars

\* An empty collections table under either schema, and no request in flight.
InitBackend ==
    /\ threads = EmptyDoc
    /\ collections = EmptyDoc
    /\ tags = EmptyDoc
    /\ metadata = EmptyDoc
    /\ user = [present |-> TRUE, isPremium |-> TRUE]
    /\ now = 1
    /\ nextCol = 0
    /\ nextTag = 0
    /\ last = [op |-> "listen", res |-> "undefined", writes |-> 0]
    /\ calls = [p \in Clients |-> Idle]
    /\ syncState = EmptyDoc
    /\ \E unique \in BOOLEAN : db = [unique |-> unique, collections |-> EmptyDoc]

\* POST /collections and PUT /collections/:id requests of two clients; a PUT
\* renames or moves a collection.
NextBackend ==
    \E p \in Clients :
       \/ \E value \in {b \in Bodies : "name" \in DOMAIN b} :
             /\ Cardinality(DOMAIN db.collections)
                  + Cardinality({q \in Clients : calls[q].pc # "idle" /\ calls[q].op = "POST"})
                  < MaxRows
             /\ Request(p, "POST", [value |-> value, id |-> NULL])
       \/ \E value \in {b \in Bodies : Cardinality(DOMAIN b) = 1},
             id \in {ToString(i) : i \in 1..MaxRows} :
             Request(p, "PUT", [value |-> value, id |-> id])
       \/ Existing(p)
       \/ Parent(p)
       \/ Duplicate(p)
       \/ Write(p)

SpecBackend == InitBackend /\ [][NextBackend]_vars

----------------------------------------------------------------------------
(* Search over a store of MaxEntries saved threads *)

\* Authors and tweet lists of the saved captures, and the queries.
Authors == {[authorUsername |-> <<"e", "l", "o", "n", "m", "u", "s", "k">>,
             authorName |-> <<"E", "l", "o", "n", " ", "M", "u", "s", "k">>],
            [authorUsername |-> <<"e", "l", "o", "n", "f", "a", "n">>,
             authorName |-> <<"B", "o", "b">>],
            [authorUsername |-> <<"n", "a", "s", "a">>,
             authorName |-> <<"N", "A", "S", "A">>]}
Postings == {<<[text |-> <<"M", "a", "r", "s">>]>>,
             <<[text |-> <<"E", "L", "O", "N">>], [text |-> <<"M", "a", "r", "s">>],
               [text |-> <<"e", "l", "o", "n", "s">>]>>}
Queries == {<<"e", "l", "o", "n">>, <<"M", "A", "R", "S">>}

\* What saveThread stores for a capture by author a with the tweets tw.
SavedThreads ==
    {Spread(a, [tweets |-> tw, tags |-> <<>>, collectionId |-> DEFAULT]) : a \in Authors, tw \in Postings}

\* The ids of MaxEntries captures of one url, saved at the clock values 1..MaxEntries.
EntryIds == {<<"s", t>> : t \in 1..MaxEntries}

\* options of searchThreads: limit and offset, each given or not.
Pagings ==
    {EmptyDoc}
      \cup {[limit |-> l] : l \in 0..MaxPage}
      \cup {[limit |-> l, offset |-> o] : l \in 0..MaxPage, o \in 0..MaxPage}

\* The store after MaxEntries saves, and a searchThreads call that awaits
\* getThreads() in one context.
InitSearch ==
    /\ threads \in [EntryIds -> SavedThreads]
    /\ collections = [c \in {DEFAULT} |-> [threadIds |-> entriesOf(threads)]]
    /\ tags = EmptyDoc
    /\ metadata = [version |-> STORAGE_VERSION, threadCount |-> MaxEntries]
    /\ user = NoUser
    /\ now = MaxEntries
    /\ nextCol = 0
    /\ nextTag = 0
    /\ last = [op |-> "initialize", res |-> "true", writes |-> 0]
    /\ \E query \in Queries, options \in Pagings :
          calls = [p \in Contexts |->
                     IF p = "tab1"
                     THEN [pc |-> "searchThreads", query |-> query, options |-> options]
                     ELSE Idle]
    /\ syncState = EmptyDoc
    /\ db = [unique |-> TRUE, collections |-> EmptyDoc]

\* The call resumes with the threads document and returns its result.
SearchThreads(p) ==
    /\ calls[p].pc = "searchThreads"
    /\ last' = [op |-> "searchThreads",
                res |-> searchThreads(threads, calls[p].query, calls[p].options),
                writes |-> 0,
                args |-> [query |-> calls[p].query, options |-> calls[p].options]]
    /\ calls' = [calls EXCEPT ![p] = Idle]
    /\ UNCHANGED <<threads, collections, tags, metadata, user, now, nextCol, nextTag,
                   syncState, db>>

NextSearch == \E p \in Contexts : SearchThreads(p)

SpecSearch == InitSearch /\ [][NextSearch]_vars

----------------------------------------------------------------------------
(* Filtered reads of a store of MaxFiltered threads, tagged and filed *)

FiledThreads ==
    {Spread(a, [tweets |-> tw, tags |-> tg, collectionId |-> c]) :
       a \in {x \in Authors : x.authorName # <<"B", "o", "b">>}, tw \in Postings,
       tg \in {<<>>, <<"2">>}, c \in {DEFAULT, "1"}}

FilteredIds == {<<"s", t>> : t \in 1..MaxFiltered}

\* filters of getThreads: each of the four keys given or not; the tags filter
\* also as an empty array.
Partial(key, values) == {EmptyDoc} \cup {[k \in {key} |-> v] : v \in values}
Filters ==
    {Spread(Spread(c, g), Spread(a, q)) :
       c \in Partial("collectionId", {"1"}),
       g \in Partial("tags", {<<>>, <<"1", "2">>}),
       a \in Partial("author", {<<"E", "L", "O", "N">>}),
       q \in Partial("search", {<<"e", "l", "o", "n">>})}

\* The store after MaxFiltered saves, createCollection, two createTag calls and
\* the addThreadToCollection and addTagToThread calls that file and tag the
\* threads; a getThreads call awaits the backend in one context.
InitFilter ==
    /\ threads \in [FilteredIds -> FiledThreads]
    /\ collections = [c \in {DEFAULT, "1"} |->
                        [threadIds |-> SelectSeq(entriesOf(threads),
                                                 LAMBDA id : threads[id].collectionId = c)]]
    /\ tags = [g \in {"1", "2"} |->
                 [threadCount |-> Cardinality({id \in DOMAIN threads : Includes(threads[id].tags, g)})]]
    /\ metadata = [version |-> STORAGE_VERSION, threadCount |-> MaxFiltered]
    /\ user = NoUser
    /\ now = MaxFiltered
    /\ nextCol = 1
    /\ nextTag = 2
    /\ last = [op |-> "initialize", res |-> "true", writes |-> 0]
    /\ \E filters \in Filters :
          calls = [p \in Contexts |->
                     IF p = "tab1" THEN [pc |-> "getThreads(filters)", filters |-> filters]
                     ELSE Idle]
    /\ syncState = EmptyDoc
    /\ db = [unique |-> TRUE, collections |-> EmptyDoc]

\* The call resumes with the threads document and returns its result.
GetThreads(p) ==
    /\ calls[p].pc = "getThreads(filters)"
    /\ last' = [op |-> "getThreads",
                res |-> getThreads(threads, calls[p].filters),
                writes |-> 0,
                args |-> [filters |-> calls[p].filters]]
    /\ calls' = [calls EXCEPT ![p] = Idle]
    /\ UNCHANGED <<threads, collections, tags, metadata, user, now, nextCol, nextTag,
                   syncState, db>>

NextFilter == \E p \in Contexts : GetThreads(p)

SpecFilter == InitFilter /\ [][NextFilter]_vars

----------------------------------------------------------------------------
(* Steps of the operations, whatever their arguments *)

\* (`last` names the operation of the step; the clock alone leaves it as it was.)
Called(op) == last'.op = op /\ now' = now

SaveThreadStep ==
    Called("saveThread") /\ \E d \in Captures, f \in FailPoints : SaveThread(d, f)
DeleteThreadStep ==
    Called("deleteThread") /\ \E id \in ThreadIds, f \in FailPoints : DeleteThread(id, f)
DeleteCollectionStep ==
    Called("deleteCollection") /\ \E c \in CollectionIds, f \in FailPoints : DeleteCollection(c, f)
AddThreadToCollectionStep ==
    Called("addThreadToCollection")
    /\ \E id \in ThreadIds, c \in CollectionIds, f \in FailPoints : AddThreadToCollection(id, c, f)
RemoveThreadFromCollectionStep ==
    Called("removeThreadFromCollection")
    /\ \E id \in ThreadIds, c \in CollectionIds, f \in FailPoints : RemoveThreadFromCollection(id, c, f)
CreateTagStep ==
    Called("createTag") /\ \E f \in FailPoints : CreateTag(f)
AddTagToThreadStep ==
    Called("addTagToThread")
    /\ \E id \in ThreadIds, g \in TagIds, f \in FailPoints : AddTagToThread(id, g, f)
RemoveTagFromThreadStep ==
    Called("removeTagFromThread")
    /\ \E id \in ThreadIds, g \in TagIds, f \in FailPoints : RemoveTagFromThread(id, g, f)
DeleteTagStep ==
    Called("deleteTag") /\ \E g \in TagIds, f \in FailPoints : DeleteTag(g, f)

\* The call returned or threw its own error: no backend write rejected.
Completed(l) == l.res # WRITE_FAILED

(* State predicates the claims are about *)

\* Thread id's collectionId names a collection whose threadIds holds id.
Agrees(th, co, id) ==
    /\ th[id].collectionId \in DOMAIN co
    /\ Includes(co[th[id].collectionId].threadIds, id)

Holders(th, g) == {id \in DOMAIN th : Includes(th[id].tags, g)}

RefConsistent == \A id \in DOMAIN threads : Agrees(threads, collections, id)
TagCountConsistent == \A g \in DOMAIN tags : tags[g].threadCount = Cardinality(Holders(threads, g))

----------------------------------------------------------------------------
(* C1: with a non-premium user and metadata.threadCount at MAX_FREE_THREADS   *)
(* or above, saveThread fails with STORAGE_LIMIT_REACHED, issues no write and *)
(* leaves every document, threadCount included, unchanged; below the quota    *)
(* (or for a premium user) a successful save raises threadCount by exactly 1. *)
(* From the empty store (threadCount = 0) the counter therefore stands at     *)
(* MAX_FREE_THREADS after exactly that many successful saves, and the next    *)
(* save fails.                                                                *)
C1_QuotaInvariant ==
    [][SaveThreadStep =>
         IF ~isPremium(user) /\ metadata.threadCount >= MAX_FREE_THREADS
         THEN /\ last'.res = STORAGE_LIMIT_REACHED
              /\ last'.writes = 0
              /\ UNCHANGED store
         ELSE last'.res = "thread" => metadata'.threadCount = metadata.threadCount + 1]_vars

\* The save after the MAX_FREE_THREADS-th one has been refused.
C1_Witness ==
    /\ last.op = "saveThread"
    /\ last.res = STORAGE_LIMIT_REACHED
    /\ ~isPremium(user)
    /\ metadata.threadCount = MAX_FREE_THREADS

(* C2: referential consistency (every stored thread's collectionId names an   *)
(* existing collection whose threadIds contains the thread's id) holds in the *)
(* initialized store and is kept by every completed saveThread,               *)
(* addThreadToCollection, deleteThread and deleteCollection call.             *)
C2_ReferentialConsistency ==
    /\ RefConsistent
    /\ [][( /\ RefConsistent
            /\ \/ SaveThreadStep
               \/ AddThreadToCollectionStep
               \/ DeleteThreadStep
               \/ DeleteCollectionStep
            /\ Completed(last') )
          => RefConsistent']_vars

\* A thread has been moved out of the default collection while another stayed.
C2_Witness ==
    /\ last.op = "addThreadToCollection"
    /\ last.res = "true"
    /\ \E id \in DOMAIN threads : threads[id].collectionId # DEFAULT
    /\ \E id \in DOMAIN threads : threads[id].collectionId = DEFAULT
    /\ RefConsistent

(* C3: every createTag, addTagToThread, removeTagFromThread and deleteTag     *)
(* call keeps each tag's threadCount equal to the number of stored threads    *)
(* whose tags list contains the tag.                                          *)
C3_TagCountConsistency ==
    [][( /\ TagCountConsistent
         /\ \/ CreateTagStep
            \/ AddTagToThreadStep
            \/ RemoveTagFromThreadStep
            \/ DeleteTagStep )
       => TagCountConsistent']_vars

(* C4: metadata.threadCount equals the number of entries of the threads map   *)
(* after every call of a sequence of saveThread and deleteThread calls.       *)
C4_ThreadCountTracksThreads == metadata.threadCount = Cardinality(DOMAIN threads)

(* C5: saveThread with a capture that has no posts fails with EMPTY_THREAD,   *)
(* creates no thread and leaves metadata.threadCount unchanged.               *)
C5_EmptyThreadRejected ==
    [][\A d \in Captures, f \in FailPoints :
         (Called("saveThread") /\ d.tweets = <<>> /\ SaveThread(d, f))
         => /\ last'.res = "EMPTY_THREAD"
            /\ threads' = threads
            /\ metadata'.threadCount = metadata.threadCount]_vars

(* C6: a mutating call that fails (its own error, or a backend write that     *)
(* rejects) has changed no persisted document.                                *)
C6_FailureLeavesStoreUnchanged ==
    [][( /\ last'.res \in {WRITE_FAILED, STORAGE_LIMIT_REACHED, FORBIDDEN}
         /\ \/ SaveThreadStep
            \/ DeleteThreadStep
            \/ DeleteCollectionStep
            \/ AddThreadToCollectionStep )
       => UNCHANGED store]_vars

(* C7: after removeThreadFromCollection(threadId, collectionId) completes,    *)
(* a thread whose collectionId and collection membership agreed still has a   *)
(* collectionId naming a collection whose threadIds contains its id.          *)
C7_RemoveKeepsAgreement ==
    [][\A id \in ThreadIds, c \in CollectionIds, f \in FailPoints :
         ( /\ Called("removeThreadFromCollection")
           /\ id \in DOMAIN threads
           /\ Agrees(threads, collections, id)
           /\ RemoveThreadFromCollection(id, c, f)
           /\ Completed(last') )
         => Agrees(threads', collections', id)]_vars

(* C8: after deleteThread removes a thread that held tags, each of those      *)
(* tags' threadCount equals the number of remaining threads holding the tag.  *)
C8_DeleteThreadDecrementsTagCounts ==
    [][\A id \in ThreadIds, f \in FailPoints :
         ( /\ Called("deleteThread")
           /\ TagCountConsistent
           /\ id \in DOMAIN threads
           /\ DeleteThread(id, f)
           /\ last'.res = "true" )
         => \A g \in DOMAIN tags :
              Includes(threads[id].tags, g)
              => tags'[g].threadCount = Cardinality(Holders(threads', g))]_vars

(* C9: deleteThread on an existing id (healthy backend) returns true, removes *)
(* the thread and lowers metadata.threadCount by exactly 1, so that the id is *)
(* absent afterwards; deleteThread on an absent id - the second of two calls  *)
(* in a row - returns false, issues no write and changes no document.         *)
C9_IdempotentDelete ==
    [][\A id \in FilledIds, f \in FailPoints :
         (Called("deleteThread") /\ DeleteThread(id, f))
         => IF id \in DOMAIN threads
            THEN f = 0 => /\ last'.res = "true"
                          /\ threads' = Drop(threads, id)
                          /\ metadata'.threadCount = metadata.threadCount - 1
            ELSE /\ last'.res = "false"
                 /\ last'.writes = 0
                 /\ UNCHANGED store]_vars

\* deleteThread has answered "not found" while another thread is stored.
C9_Witness ==
    /\ last.op = "deleteThread"
    /\ last.res = "false"
    /\ metadata.threadCount = 1
    /\ Cardinality(DOMAIN threads) = 1

(* C10: deleteCollection("default") fails with the FORBIDDEN error in every   *)
(* state, issues no write and changes no document; no deleteCollection call   *)
(* removes the default collection.                                            *)
C10_DefaultCollectionProtected ==
    [][\A c \in CollectionIds, f \in FailPoints :
         (Called("deleteCollection") /\ DeleteCollection(c, f))
         => /\ c = DEFAULT => /\ last'.res = FORBIDDEN
                              /\ last'.writes = 0
                              /\ UNCHANGED store
            /\ DEFAULT \in DOMAIN collections => DEFAULT \in DOMAIN collections']_vars

\* deleteCollection("default") has been refused in a store with threads and a second collection.
C10_Witness ==
    /\ last.op = "deleteCollection"
    /\ last.res = FORBIDDEN
    /\ DOMAIN collections # {DEFAULT}
    /\ collections[DEFAULT].threadIds # <<>>

(* C12: deleteCollection(c) on an existing non-default collection c leaves   *)
(* every stored thread that c.threadIds listed with collectionId "default"    *)
(* and its id in the default collection's threadIds, removes c, and changes   *)
(* no other collection and no other thread.                                   *)
C12_DeleteCollectionMovesToDefault ==
    [][\A c \in FolderIds \ {DEFAULT} :
         (Called("deleteCollection") /\ c \in DOMAIN collections /\ DeleteCollection(c, 0))
         => /\ c \notin DOMAIN collections'
            /\ DOMAIN collections' = DOMAIN collections \ {c}
            /\ DOMAIN threads' = DOMAIN threads
            /\ \A id \in DOMAIN threads :
                 IF Includes(collections[c].threadIds, id)
                 THEN /\ threads'[id].collectionId = DEFAULT
                      /\ Includes(collections'[DEFAULT].threadIds, id)
                      /\ threads'[id] = [threads[id] EXCEPT !.collectionId = DEFAULT]
                 ELSE threads'[id] = threads[id]
            /\ \A o \in DOMAIN collections \ {c, DEFAULT} : collections'[o] = collections[o]]_vars

\* A collection has been deleted while another one, with a thread in it, stayed
\* and a thread sits in the default collection.
C12_Witness ==
    /\ last.op = "deleteCollection"
    /\ last.res = "true"
    /\ nextCol = MaxFolders
    /\ \E o \in DOMAIN collections \ {DEFAULT} :
          \E id \in DOMAIN threads :
             threads[id].collectionId = o /\ Includes(collections[o].threadIds, id)
    /\ \E id \in DOMAIN threads :
          threads[id].collectionId = DEFAULT /\ Includes(collections[DEFAULT].threadIds, id)

(* C13: after deleteTag(g) has returned true the tag map has no entry g and   *)
(* no thread's tags list contains g; every other tag's record, every thread's *)
(* other tags and every other field of a thread are as before.                *)
C13_DeleteTagSweeps ==
    [][\A g \in LabelIds :
         (Called("deleteTag") /\ DeleteTag(g, 0) /\ last'.res = "true")
         => /\ g \notin DOMAIN tags'
            /\ DOMAIN tags' = DOMAIN tags \ {g}
            /\ \A o \in DOMAIN tags \ {g} : tags'[o] = tags[o]
            /\ DOMAIN threads' = DOMAIN threads
            /\ \A id \in DOMAIN threads :
                 /\ ~Includes(threads'[id].tags, g)
                 /\ threads'[id] = [threads[id] EXCEPT !.tags = Filter(@, g)]]_vars

\* A tag has been deleted while a thread holds the other tag.
C13_Witness ==
    /\ last.op = "deleteTag"
    /\ last.res = "true"
    /\ nextTag = MaxLabels
    /\ \E o \in DOMAIN tags : tags[o].threadCount > 0 /\ Holders(threads, o) # {}

(* C14: addTagToThread(t, g) on a thread that already holds g returns false,  *)
(* issues no write and changes neither the thread's tags list nor g's         *)
(* threadCount; an add that returns true appends g once and raises g's        *)
(* threadCount by exactly 1; no thread's tags list holds a tag id twice.      *)
C14_AddTagIdempotent ==
    /\ [](\A id \in DOMAIN threads :
            \A i, j \in 1..Len(threads[id].tags) :
               threads[id].tags[i] = threads[id].tags[j] => i = j)
    /\ [][\A id \in PageIds, g \in LabelIds :
            (Called("addTagToThread") /\ AddTagToThread(id, g, 0))
            => IF id \in DOMAIN threads /\ Includes(threads[id].tags, g)
               THEN /\ last'.res = "false"
                    /\ last'.writes = 0
                    /\ UNCHANGED store
               ELSE last'.res = "true"
                    => /\ threads'[id].tags = Append(threads[id].tags, g)
                       /\ tags'[g].threadCount = tags[g].threadCount + 1]_vars

\* With every thread stored and every tag created, an add has returned false:
\* the thread held the tag already.
C14_Witness ==
    /\ last.op = "addTagToThread"
    /\ last.res = "false"
    /\ DOMAIN threads = PageIds
    /\ DOMAIN tags = LabelIds
    /\ \E id \in DOMAIN threads : threads[id].tags # <<>>

(* C15: addThreadToCollection returns false, issues no write and changes no   *)
(* document whenever the thread id or the collection id does not exist.       *)
C15_AddToMissingIsNoop ==
    [][\A id \in PageIds, c \in FolderIds :
         ( /\ Called("addThreadToCollection")
           /\ (id \notin DOMAIN threads \/ c \notin DOMAIN collections)
           /\ AddThreadToCollection(id, c, 0) )
         => /\ last'.res = "false"
            /\ last'.writes = 0
            /\ UNCHANGED store]_vars

\* An add has been refused in a store that holds a thread and a second collection.
C15_Witness ==
    /\ last.op = "addThreadToCollection"
    /\ last.res = "false"
    /\ last.writes = 0
    /\ threads # EmptyDoc
    /\ DOMAIN collections # {DEFAULT}
    /\ (DOMAIN threads # PageIds \/ DOMAIN collections # FolderIds)

(* C20: updateThread on an id that is not stored reports not-found (returns  *)
(* null) and writes nothing; on a stored id it stores and returns the old     *)
(* record overlaid with the fields of partialUpdate and with lastModified set *)
(* to the current time, and leaves every other thread unchanged.              *)
C20_UpdateThreadOverlay ==
    [][\A id \in FilledIds, u \in Updates :
         (Called("updateThread") /\ UpdateThread(id, u, 0))
         => IF id \in DOMAIN threads
            THEN /\ DOMAIN threads' = DOMAIN threads
                 /\ DOMAIN threads'[id] = DOMAIN threads[id] \cup DOMAIN u \cup {"lastModified"}
                 /\ threads'[id].lastModified = now
                 /\ \A k \in DOMAIN u \ {"lastModified"} : threads'[id][k] = u[k]
                 /\ \A k \in DOMAIN threads[id] \ (DOMAIN u \cup {"lastModified"}) :
                      threads'[id][k] = threads[id][k]
                 /\ last'.res = threads'[id]
                 /\ \A o \in DOMAIN threads \ {id} : threads'[o] = threads[o]
            ELSE /\ last'.op = "updateThread"
                 /\ last'.writes = 0
                 /\ last'.res = Null
                 /\ UNCHANGED store]_vars

\* A thread has been updated with new tweets next to a thread that has not.
C20_Witness ==
    /\ last.op = "updateThread"
    /\ last.writes = 1
    /\ \E id \in DOMAIN threads :
          /\ last.res = threads[id]
          /\ threads[id].tweets = <<"q">>
          /\ threads[id].lastModified = now
    /\ \E o \in DOMAIN threads : "lastModified" \notin DOMAIN threads[o]

(* C11: two saveThread calls whose reads and writes interleave can both pass  *)
(* the quota test against the same stale threadCount; the later write-back    *)
(* then replaces the earlier one's counter, so whenever two completed saves   *)
(* have read the same counter value, threadCount stands just one above it:   *)
(* at 1 after the two saves of an empty store.                                *)
C11_LostCounterUpdate ==
    \A p, q \in Contexts :
       ( /\ p # q
         /\ calls[p].pc = "done" /\ calls[p].res = "thread"
         /\ calls[q].pc = "done" /\ calls[q].res = "thread"
         /\ calls[p].metadata.threadCount = calls[q].metadata.threadCount )
       => /\ metadata.threadCount = calls[p].metadata.threadCount
          /\ metadata.threadCount < 2

\* Both saves have completed and returned their thread, and threadCount is 1.
C11_Witness ==
    /\ \A p \in Contexts : calls[p].pc = "done" /\ calls[p].res = "thread"
    /\ \A p \in Contexts : calls[p].metadata.threadCount = 1
    /\ metadata.threadCount = 1

(* C16: a thread's relevance score for a query is 10 for every post whose     *)
(* text contains the query case-insensitively, plus 20 if authorUsername      *)
(* contains it, plus 15 if authorName contains it, with one match record per  *)
(* contributing post or field; without pagination a thread is in the result   *)
(* exactly when its score is above 0.                                         *)
ContainsCI(text, q) ==
    \E i \in 1..(Len(text) + 1) :
       /\ i + Len(q) - 1 <= Len(text)
       /\ \A j \in 1..Len(q) :
            LET a == text[i + j - 1]
                b == q[j]
            IN  a = b \/ <<a, b>> \in CasePairs \/ <<b, a>> \in CasePairs

MatchingPosts(thread, q) == {k \in 1..Len(thread.tweets) : ContainsCI(thread.tweets[k].text, q)}

Relevance(thread, q) ==
    10 * Cardinality(MatchingPosts(thread, q))
      + (IF ContainsCI(thread.authorUsername, q) THEN 20 ELSE 0)
      + (IF ContainsCI(thread.authorName, q) THEN 15 ELSE 0)

OfType(matches, type) == {i \in 1..Len(matches) : matches[i].type = type}

C16_RelevanceScore ==
    last.op = "searchThreads"
    => LET q == last.args.query
           res == last.res
       IN  /\ \A i \in 1..Len(res) :
                LET e == res[i]
                IN  /\ e.id \in DOMAIN threads
                    /\ e.thread = threads[e.id]
                    /\ e.score = Relevance(e.thread, q)
                    /\ e.score > 0
                    /\ {e.matches[m].index + 1 : m \in OfType(e.matches, "tweet")}
                         = MatchingPosts(e.thread, q)
                    /\ Cardinality(OfType(e.matches, "tweet"))
                         = Cardinality(MatchingPosts(e.thread, q))
                    /\ Cardinality(OfType(e.matches, "author"))
                         = (IF ContainsCI(e.thread.authorUsername, q) THEN 1 ELSE 0)
                    /\ Cardinality(OfType(e.matches, "authorName"))
                         = (IF ContainsCI(e.thread.authorName, q) THEN 1 ELSE 0)
                    /\ Len(e.matches) = Cardinality(OfType(e.matches, "tweet"))
                                          + Cardinality(OfType(e.matches, "author"))
                                          + Cardinality(OfType(e.matches, "authorName"))
           /\ "limit" \notin DOMAIN last.args.options
              => \A id \in DOMAIN threads :
                    Cardinality({i \in 1..Len(res) : res[i].id = id})
                      = (IF Relevance(threads[id], q) > 0 THEN 1 ELSE 0)

\* A search for "elon" has found a thread of elonmusk / "Elon Musk" none of
\* whose posts holds the query, with score 35 and two match records, and has
\* left out another thread.
C16_Witness ==
    /\ last.op = "searchThreads"
    /\ last.args.query = <<"e", "l", "o", "n">>
    /\ "limit" \notin DOMAIN last.args.options
    /\ Len(last.res) < MaxEntries
    /\ \E i \in 1..Len(last.res) :
          /\ last.res[i].score = 35
          /\ Len(last.res[i].matches) = 2
          /\ MatchingPosts(last.res[i].thread, last.args.query) = {}

(* C17: the result of searchThreads is in order of non-increasing score, and  *)
(* entries of equal score are in the iteration order of the threads map.      *)
C17_SortedStable ==
    last.op = "searchThreads"
    => LET res == last.res
           order == entriesOf(threads)
           Position(id) == CHOOSE k \in 1..Len(order) : order[k] = id
       IN  \A i, j \in 1..Len(res) :
              i < j => /\ res[i].score >= res[j].score
                       /\ res[i].score = res[j].score
                          => Position(res[i].id) < Position(res[j].id)

\* A result with two entries of equal score behind an entry of greater score
\* that comes later in the threads map.
C17_Witness ==
    /\ last.op = "searchThreads"
    /\ Len(last.res) = 3
    /\ last.res[1].score > last.res[2].score
    /\ last.res[2].score = last.res[3].score
    /\ last.res[1].id[2] > last.res[3].id[2]
    /\ last.res[2].thread # last.res[3].thread

(* C18: for every non-negative limit L and offset O (0 when not given) the    *)
(* call returns exactly the entries at positions O .. O+L-1 of the sorted     *)
(* result, hence at most L entries.                                           *)
Offset(options) == IF "offset" \in DOMAIN options THEN options.offset ELSE 0
Positions(sorted, from, to) ==
    [k \in 1..Max(0, Min(to, Len(sorted)) - from) |-> sorted[from + k]]

C18_PaginationPlainSlice ==
    (last.op = "searchThreads" /\ "limit" \in DOMAIN last.args.options)
    => LET sorted == searchThreads(threads, last.args.query, EmptyDoc)
           O == Offset(last.args.options)
           L == last.args.options.limit
       IN  /\ last.res = Positions(sorted, O, O + L)
           /\ Len(last.res) <= L

(* C18, amended: for every positive limit L and offset O (0 when not given)   *)
(* the call returns exactly the entries at positions O .. O+L-1 of the sorted *)
(* result, hence at most L entries; with limit 0, as with no limit, it        *)
(* returns the whole sorted result and ignores the offset.                    *)
C18_PaginationPositiveLimit ==
    (last.op = "searchThreads" /\ "limit" \in DOMAIN last.args.options)
    => LET sorted == searchThreads(threads, last.args.query, EmptyDoc)
           O == Offset(last.args.options)
           L == last.args.options.limit
       IN  IF L > 0
           THEN /\ last.res = Positions(sorted, O, O + L)
                /\ Len(last.res) <= L
           ELSE last.res = sorted

\* A page that leaves out entries before it and entries behind it.
C18_Witness ==
    /\ last.op = "searchThreads"
    /\ "limit" \in DOMAIN last.args.options
    /\ last.args.options.limit > 0
    /\ Offset(last.args.options) > 0
    /\ Len(last.res) = last.args.options.limit
    /\ Len(searchThreads(threads, last.args.query, EmptyDoc))
         > Offset(last.args.options) + last.args.options.limit

(* C19: getThreads(filters) returns exactly the stored threads that satisfy   *)
(* every filter that is given (a filter given as '' or as an empty array      *)
(* counts as not given): collectionId equal to the thread's, at least one of  *)
(* filters.tags among the thread's tags, author a case-insensitive substring  *)
(* of authorUsername, search a case-insensitive substring of the text of some *)
(* post; with no filter it returns every thread.                              *)
Given(filters, key, empty) == key \in DOMAIN filters /\ filters[key] # empty

Satisfies(thread, filters) ==
    /\ Given(filters, "collectionId", "") => thread.collectionId = filters.collectionId
    /\ Given(filters, "tags", <<>>)
       => \E i \in 1..Len(filters.tags), j \in 1..Len(thread.tags) :
             filters.tags[i] = thread.tags[j]
    /\ Given(filters, "author", <<>>) => ContainsCI(thread.authorUsername, filters.author)
    /\ Given(filters, "search", <<>>)
       => \E k \in 1..Len(thread.tweets) : ContainsCI(thread.tweets[k].text, filters.search)

C19_FiltersConjunction ==
    last.op = "getThreads"
    => /\ DOMAIN last.res = {id \in DOMAIN threads : Satisfies(threads[id], last.args.filters)}
       /\ \A id \in DOMAIN last.res : last.res[id] = threads[id]
       /\ last.args.filters = EmptyDoc => last.res = threads

\* All four filters were given; one thread passed them all, holding one of the
\* two tags asked for, and another thread did not.
C19_Witness ==
    /\ last.op = "getThreads"
    /\ DOMAIN last.args.filters = {"collectionId", "tags", "author", "search"}
    /\ last.args.filters.tags = <<"1", "2">>
    /\ Cardinality(DOMAIN last.res) = 1
    /\ Cardinality(DOMAIN threads) > 1

(* C23: when two saveThread calls for different threads run concurrently     *)
(* against a backend that applies each set() as a whole, no data is lost:     *)
(* once both calls have completed, both threads are in the threads map and    *)
(* both ids are in the default collection's threadIds.                        *)
C23_ConcurrentSavesKeepBoth ==
    \A p, q \in Contexts :
       ( /\ p # q
         /\ calls[p].pc = "done" /\ calls[p].res = "thread"
         /\ calls[q].pc = "done" /\ calls[q].res = "thread"
         /\ calls[p].threadId # calls[q].threadId )
       => /\ calls[p].threadId \in DOMAIN threads
          /\ calls[q].threadId \in DOMAIN threads
          /\ Includes(collections[DEFAULT].threadIds, calls[p].threadId)
          /\ Includes(collections[DEFAULT].threadIds, calls[q].threadId)

(* C26: in every state reached from an initialized store by sequential        *)
(* saveThread, deleteThread, addThreadToCollection,                           *)
(* removeThreadFromCollection and deleteCollection calls, every id in a       *)
(* collection's threadIds is the id of a stored thread and no thread id       *)
(* occurs more than once across all collections' threadIds.                   *)
Listings(co, id) ==
    UNION { {<<c, i>> : i \in {j \in 1..Len(co[c].threadIds) :
                                  co[c].threadIds[j] = id}} : c \in DOMAIN co }

C26_CollectionsDisjointNoDangling ==
    \A c \in DOMAIN collections :
       \A i \in 1..Len(collections[c].threadIds) :
          /\ collections[c].threadIds[i] \in DOMAIN threads
          /\ Listings(collections, collections[c].threadIds[i]) = {<<c, i>>}

(* C21: whatever the backend held before, after initialize() returns         *)
(* success the backend holds a threads map, a collections map containing the  *)
(* "default" collection, a tags map and a metadata document with a version    *)
(* stamp; when the backend is unreachable initialize() returns false instead  *)
(* of throwing.  (An absent threads or tags document reads as the empty map.) *)
InitializeStep == \E f \in FailPoints : Called("initialize") /\ Initialize(f)

C21_InitializeEstablishesDocuments ==
    [][/\ InitializeStep => last'.res \in {"true", "false"}
       /\ (Called("initialize") /\ Initialize(1)) => last'.res = "false"
       /\ (InitializeStep /\ last'.res = "true")
             => /\ DEFAULT \in DOMAIN collections'
                /\ "version" \in DOMAIN metadata']_vars

(* C24: initialize() destroys no stored data: every thread, collection and    *)
(* tag persisted before the call is persisted unchanged after it, also when   *)
(* the threads were saved before initialize() had ever run.                   *)
Kept(before, after) ==
    \A k \in DOMAIN before : k \in DOMAIN after /\ after[k] = before[k]

C24_InitializeKeepsData ==
    [][InitializeStep
         => /\ Kept(threads, threads')
            /\ Kept(collections, collections')
            /\ Kept(tags, tags')]_vars

(* C25: for a user who is never premium the threads map never holds more      *)
(* than MAX_FREE_THREADS threads, in any state reached from an empty backend  *)
(* by saveThread, deleteThread and initialize calls in any order.             *)
C25_FreeUserWithinQuota ==
    ~isPremium(user) => Cardinality(DOMAIN threads) <= MAX_FREE_THREADS

(* C27: after performCleanup has removed the expired threads of a user who   *)
(* is not premium, metadata.threadCount equals the number of threads left,    *)
(* no collection's threadIds holds a removed id, and every tag's threadCount  *)
(* equals the number of threads left that carry the tag.                      *)
PerformCleanupStep == last'.op = "performCleanup" /\ PerformCleanup

C27_CleanupKeepsIndexes ==
    [][(PerformCleanupStep /\ ~isPremium(user) /\ threads' # threads)
         => /\ metadata'.threadCount = Cardinality(DOMAIN threads')
            /\ \A c \in DOMAIN collections' :
                  \A i \in 1..Len(collections'[c].threadIds) :
                     collections'[c].threadIds[i] \in DOMAIN threads'
                     \/ collections'[c].threadIds[i] \notin DOMAIN threads
            /\ \A g \in DOMAIN tags' :
                  (tags[g].threadCount = Cardinality(Holders(threads, g)))
                  => tags'[g].threadCount = Cardinality(Holders(threads', g))]_vars

(* C22: syncState.pendingChanges is append-only between syncs: over every     *)
(* step of addPendingChange, updateSyncState, syncThreads and performCleanup  *)
(* the entries recorded so far stay, in order, at the head of the list,       *)
(* unless the step is the acknowledgement of a sync request, which empties    *)
(* the list; a sync that fails leaves the list as it was.                     *)
Pending(sync) == getSyncState(sync).pendingChanges

IsPrefix(a, b) == Len(a) <= Len(b) /\ \A i \in 1..Len(a) : b[i] = a[i]

Acknowledged == \E p \in Triggers : calls[p].pc = "setSyncState" /\ SyncSetState(p)

C22_PendingAppendOnly ==
    [][/\ Acknowledged => Pending(syncState') = <<>>
       /\ ~Acknowledged => IsPrefix(Pending(syncState), Pending(syncState'))]_vars

(* C29: no pending change is dropped unsent: every entry that syncThreads     *)
(* removes from syncState.pendingChanges was in the body of the request the   *)
(* server acknowledged, also when addPendingChange runs while the request is  *)
(* in flight or when syncThreads calls overlap.                               *)
Count(seq, e) == Cardinality({i \in 1..Len(seq) : seq[i] = e})

C29_RemovedChangesWereSent ==
    [][\A p \in Triggers :
         (calls[p].pc = "setSyncState" /\ SyncSetState(p))
         => \A i \in 1..Len(Pending(syncState)) :
               Count(Pending(syncState), Pending(syncState)[i])
                  <= Count(calls[p].body.changes, Pending(syncState)[i])]_vars

(* C28: a thread saved, or a deletion made, while syncThreads awaits the      *)
(* server's response is not undone by the sync: when syncThreads has merged   *)
(* the server's threads, the threads map holds every thread saved meanwhile   *)
(* and none of those deleted meanwhile (the claim adds that                   *)
(* metadata.threadCount still equals the number of threads).                  *)
C28_SyncKeepsLocalChanges ==
    [][\A p \in Triggers :
         (calls[p].pc = "setThreads" /\ SyncSetThreads(p))
         => /\ \A id \in DOMAIN threads \ DOMAIN calls[p].threads :
                  id \in DOMAIN threads'
            /\ \A id \in DOMAIN calls[p].threads \ DOMAIN threads :
                  id \in DOMAIN threads' => id = Remote]_vars

(* C30: the backend's collections API keeps names unique per level: after any *)
(* sequence of POST /collections and PUT /collections/:id requests of one     *)
(* user, concurrent ones included, no two collections have the same name and  *)
(* the same parent_id, and a request whose write would create such a pair is  *)
(* answered 409 and changes nothing.                                          *)
UniquePerLevel(table) ==
    \A i, j \in DOMAIN table :
       (table[i].name = table[j].name /\ table[i].parent_id = table[j].parent_id) => i = j

C30_NamesUniquePerLevel ==
    [][/\ UniquePerLevel(db.collections) => UniquePerLevel(db'.collections)
       /\ \A p \in Clients :
             ( /\ calls[p].pc = "write"
               /\ Write(p)
               /\ UniquePerLevel(db.collections)
               /\ ~UniquePerLevel(Put(db.collections, rowId(db.collections, calls[p]),
                                      rowOf(db.collections, calls[p]))) )
             => last'.res = "409" /\ db' = db]_vars

====
